---- MODULE Spec2Model ----
(***************************************************************************)
(* Account pool and request routing core of DreaminaMonitor:               *)
(* the account store, the selector (get_valid_account), the forwarder      *)
(* (proxy_request), its background tasks (update_account_usage,            *)
(* ban_account_temp), the unban sweep and the admin operations that put    *)
(* rows in the store.                                                      *)
(*                                                                         *)
(* Time is counted in hours.  A string is a sequence of one-character      *)
(* strings, so "" is <<>>; SQL NULL / Python None is Null for strings and  *)
(* NoTime for timestamps.  An Optional row is a sequence of length 0 or 1. *)
(***************************************************************************)
EXTENDS Integers, Sequences, FiniteSets, TLC

VARIABLES
    accounts,   \* the accounts table: id -> row
    settings,   \* config.settings: the per-model limits
    now,        \* datetime.now(), in hours
    rr,         \* proxy._round_robin_index
    req,        \* one record per inbound proxy request
    sweep,      \* the unban sweep's loop iteration
    picked,     \* ids returned by a run of consecutive selections
    clock,      \* datetime.now(), in half minutes (the reset loop's sleep)
    admin,      \* the admin API requests in flight
    reg,        \* the registration workflows: the endpoint's and the loop's
    reset,      \* reset_usage_counts_task: its locals and what it printed
    loops,      \* the three background tasks: where each is suspended
    lifespan    \* main.lifespan: serving, or how far the shutdown has got

\* what the proxy path, the selector and the unban sweep leave alone
others == <<clock, admin, reg, reset, loops, lifespan>>

vars ==
    <<accounts, settings, now, rr, req, sweep, picked, clock, admin, reg, reset,
      loops, lifespan>>

----------------------------------------------------------------------------
(* Bounds *)

MaxAccounts == 2
MaxTime == 1
MaxSelTime == 2
MaxPool == 3
MaxRR == 3
MaxCalls == 6
MaxBanTime == 2
MaxClock == 2884

Requests == {1, 2}
Admins == {1, 2}

----------------------------------------------------------------------------
(* Values *)

Null == <<"NULL">>
NoTime == -1
NoAccount == <<>>

SessionValues == {Null, <<>>, <<"s">>}
PointValues == {0, 1}
RegionValues == {<<"u", "s">>}
AdminBanHours == {1}
\* upstream responses: <<status code, content>>
Responses == {<<200, "image">>, <<399, "redirect">>, <<400, "bad request">>,
              <<429, "rate limited">>, <<500, "server error">>, <<524, "timeout">>}

KnownModels == {"jimeng-4.0", "jimeng-4.1", "nanobanana", "nanobananapro", "video-3.0"}
ModelNames == KnownModels \cup {"unknown"}
CountFields == {"jimeng_4_0_count", "jimeng_4_1_count", "nanobanana_count",
                "nanobananapro_count", "video_3_0_count"}
PointsExempt == {"nanobanana", "nanobananapro"}
BanStatuses == {429, 500, 524}
DefaultBanHours == 4

Truthy(s) == s # Null /\ s # <<>>

\* the wall clock: the reset loop wakes every 30 seconds, one tick of clock
TicksPerMinute == 2
MinutesPerHour == 60
HoursPerDay == 24

\* now.date(), now.hour and now.minute of a reading of clock
date_of(c) == c \div (TicksPerMinute * MinutesPerHour * HoursPerDay)
hour_of(c) == (c \div (TicksPerMinute * MinutesPerHour)) % HoursPerDay
minute_of(c) == (c \div TicksPerMinute) % MinutesPerHour

\* int() of a string of digits
DigitValue(c) ==
    CASE c = "0" -> 0 [] c = "1" -> 1 [] c = "2" -> 2 [] c = "3" -> 3 [] c = "4" -> 4
      [] c = "5" -> 5 [] c = "6" -> 6 [] c = "7" -> 7 [] c = "8" -> 8 [] c = "9" -> 9

RECURSIVE ParseInt(_)
ParseInt(str) ==
    IF str = <<>> THEN 0
    ELSE ParseInt(SubSeq(str, 1, Len(str) - 1)) * 10 + DigitValue(str[Len(str)])

\* reset_hour, reset_minute = map(int, reset_time.split(":"))
reset_hour(reset_time) ==
    LET k == CHOOSE k \in 1..Len(reset_time) : reset_time[k] = ":"
    IN ParseInt(SubSeq(reset_time, 1, k - 1))

reset_minute(reset_time) ==
    LET k == CHOOSE k \in 1..Len(reset_time) : reset_time[k] = ":"
    IN ParseInt(SubSeq(reset_time, k + 1, Len(reset_time)))

\* str.startswith
startswith(str, prefix) ==
    Len(str) >= Len(prefix) /\ SubSeq(str, 1, Len(prefix)) = prefix

\* emails: "u1", "u2", ...
EmailOf(n) == <<"u", ToString(n)>>

----------------------------------------------------------------------------
(* The Account row *)

NewAccount(id, email, session_id, region, points, session_id_updated_at) ==
    [id |-> id, email |-> email, session_id |-> session_id, region |-> region,
     points |-> points, session_id_updated_at |-> session_id_updated_at,
     jimeng_4_0_count |-> 0, jimeng_4_1_count |-> 0, nanobanana_count |-> 0,
     nanobananapro_count |-> 0, video_3_0_count |-> 0,
     error_count |-> 0, is_banned |-> FALSE, ban_until |-> NoTime]

Ids == DOMAIN accounts

MaxId(S) == CHOOSE x \in S : \A y \in S : y <= x

NextId == IF Ids = {} THEN 1 ELSE MaxId(Ids) + 1

RECURSIVE SortedIds(_)
SortedIds(S) ==
    IF S = {} THEN <<>>
    ELSE LET m == CHOOSE x \in S : \A y \in S : x <= y
         IN <<m>> \o SortedIds(S \ {m})

Range(s) == {s[i] : i \in DOMAIN s}

----------------------------------------------------------------------------
(* get_valid_account: the eligibility query *)

model_field_map(model_name) ==
    CASE model_name = "jimeng-4.0" -> <<"jimeng_4_0_count", settings.LIMIT_JIMENG_4_0>>
      [] model_name = "jimeng-4.1" -> <<"jimeng_4_1_count", settings.LIMIT_JIMENG_4_1>>
      [] model_name = "nanobanana" -> <<"nanobanana_count", settings.LIMIT_NANOBANANA>>
      [] model_name = "nanobananapro" -> <<"nanobananapro_count", settings.LIMIT_NANOBANANAPRO>>
      [] model_name = "video-3.0" -> <<"video_3_0_count", settings.LIMIT_VIDEO_3_0>>

usage_condition_at_limit(row, model_name) ==
    IF model_name \in KnownModels
    THEN row[model_field_map(model_name)[1]] <= model_field_map(model_name)[2]
    ELSE TRUE

usage_condition(row, model_name) ==
    IF model_name \in KnownModels
    THEN row[model_field_map(model_name)[1]] < model_field_map(model_name)[2]
    ELSE TRUE

points_condition(row, model_name) ==
    IF model_name \notin {"nanobanana", "nanobananapro"}
    THEN row.points > 0
    ELSE TRUE

ban_condition_reversed(row, t) ==
    row.is_banned = FALSE \/ (row.ban_until # NoTime /\ row.ban_until > t)

\* or_(Account.is_banned == False, Account.ban_until < now); NULL < now is not true
ban_condition(row, t) ==
    row.is_banned = FALSE \/ (row.ban_until # NoTime /\ row.ban_until < t)

\* Account.session_id.isnot(None)
session_condition(row) == row.session_id # Null

valid_account(row, model_name, t) ==
    /\ ban_condition(row, t)
    /\ session_condition(row)
    /\ usage_condition(row, model_name)
    /\ points_condition(row, model_name)

\* result.scalars().all(): the matching rows, in rowid order
query_valid_accounts(model_name, t) ==
    LET ids == SortedIds({i \in Ids : valid_account(accounts[i], model_name, t)})
    IN [k \in 1..Len(ids) |-> accounts[ids[k]]]

next_index_not_advanced(index, n) == index % n

\* _round_robin_index = (_round_robin_index + 1) % len(accounts)
next_index(index, n) == (index + 1) % n

----------------------------------------------------------------------------
(* The ORM's unit of work: a commit writes the attributes whose value      *)
(* differs from the loaded one, to the row with the loaded id; a row that  *)
(* is gone makes the flush fail and nothing is written.                    *)

flush_row(current, loaded, dirty) ==
    [f \in DOMAIN current |-> IF dirty[f] # loaded[f] THEN dirty[f] ELSE current[f]]

commit_rows(table, loadedRows, dirtyRows) ==
    IF \A k \in DOMAIN loadedRows : loadedRows[k].id \in DOMAIN table
    THEN [i \in DOMAIN table |->
            IF \E k \in DOMAIN loadedRows : loadedRows[k].id = i
            THEN LET k == CHOOSE k \in DOMAIN loadedRows : loadedRows[k].id = i
                 IN flush_row(table[i], loadedRows[k], dirtyRows[k])
            ELSE table[i]]
    ELSE table

\* db.get(Account, account_id)
\* a lookup that falls back on some row when the id is gone
db_get_some_row(id) ==
    IF id \in Ids THEN <<accounts[id]>>
    ELSE IF Ids = {} THEN NoAccount ELSE <<accounts[CHOOSE i \in Ids : TRUE]>>

db_get(id) == IF id \in Ids THEN <<accounts[id]>> ELSE NoAccount

\* select(Account).where(Account.email == email) finds a row
email_exists(table, email) == \E i \in DOMAIN table : table[i].email = email

unique_email_not_enforced(table, rows) == FALSE

\* Account.email is unique=True: the INSERT of rows breaks the unique index
unique_email_violated(table, rows) ==
    \/ \E k \in DOMAIN rows : email_exists(table, rows[k].email)
    \/ \E j, k \in DOMAIN rows : j # k /\ rows[j].email = rows[k].email

\* db.add(...) for each of rows, then commit: the rows get the next rowids;
\* an IntegrityError rolls the whole transaction back
db_insert(table, rows) ==
    IF unique_email_violated(table, rows) THEN table
    ELSE LET base == IF DOMAIN table = {} THEN 0 ELSE MaxId(DOMAIN table)
         IN [i \in DOMAIN table \cup {base + k : k \in DOMAIN rows} |->
                IF i \in DOMAIN table THEN table[i]
                ELSE [rows[i - base] EXCEPT !.id = i]]

----------------------------------------------------------------------------
(* Lifecycle updater: what the two background tasks set on the loaded row *)

count_field(model_name) ==
    CASE model_name = "jimeng-4.0" -> "jimeng_4_0_count"
      [] model_name = "jimeng-4.1" -> "jimeng_4_1_count"
      [] model_name = "nanobanana" -> "nanobanana_count"
      [] model_name = "nanobananapro" -> "nanobananapro_count"
      [] model_name = "video-3.0" -> "video_3_0_count"

increment_usage_first_counter(row, model_name) ==
    IF model_name \in KnownModels
    THEN [row EXCEPT !.jimeng_4_0_count = @ + 1]
    ELSE row

increment_usage(row, model_name) ==
    IF model_name \in KnownModels
    THEN [row EXCEPT ![count_field(model_name)] = @ + 1]
    ELSE row

ban_fields_no_error_count(row, t, hours) ==
    [row EXCEPT !.is_banned = TRUE, !.ban_until = t + hours]

ban_fields(row, t, hours) ==
    [row EXCEPT !.is_banned = TRUE, !.ban_until = t + hours, !.error_count = @ + 1]

\* if account.session_id and account.region: the credit lookup is issued
credit_lookup_issued(row) == Truthy(row.session_id) /\ Truthy(row.region)

\* fetch_account_credit: None (NoCredit) for cn and for every failure
NoCredit == -1

\* str.lower() on the letters a region is written with
lower_char(c) ==
    CASE c = "C" -> "c" [] c = "N" -> "n" [] c = "U" -> "u" [] c = "S" -> "s"
      [] OTHER -> c
lower(str) == [k \in DOMAIN str |-> lower_char(str[k])]

\* what the commerce API answers: 200 with ret 0 and the three credits
\* (total is their sum), another status, a payload with another ret, or
\* the request raising
CreditTotals == PointValues \cup {2}
CreditReplies ==
    [kind : {"ok", "http_error", "ret_error", "exception"}, total : CreditTotals]

\* a lookup that takes the total from whatever came back
fetch_account_credit_any_reply(session_id, region, reply) ==
    IF lower(region) = <<"c", "n">> THEN NoCredit ELSE reply.total

\* fetch_account_credit: the total of a good reply, None otherwise
fetch_account_credit(session_id, region, reply) ==
    IF lower(region) = <<"c", "n">> THEN NoCredit
    ELSE IF reply.kind = "ok" THEN reply.total
    ELSE NoCredit

credit_results(row) ==
    {fetch_account_credit(row.session_id, row.region, reply) : reply \in CreditReplies}


----------------------------------------------------------------------------
(* State after construction: an empty store, the configured limits *)

InitReq ==
    [pc |-> "idle", model |-> "unknown", now |-> NoTime, accounts |-> <<>>,
     account |-> NoAccount, sent |-> FALSE, status |-> 0, body |-> "",
     respStatus |-> 0, respBody |-> "", error |-> "none", task |-> "none",
     loaded |-> NoAccount, dirty |-> NoAccount]

\* the limits are settings (config.py, api.update_settings); the model runs
\* under small configured limits so that requests reach them
InitSettings ==
    [LIMIT_JIMENG_4_0 |-> 1, LIMIT_JIMENG_4_1 |-> 2, LIMIT_NANOBANANA |-> 1,
     LIMIT_NANOBANANAPRO |-> 2, LIMIT_VIDEO_3_0 |-> 1,
     REGISTER_API_URL |-> <<"h", "t", "t", "p">>, REGISTER_API_KEY |-> <<>>,
     DEFAULT_POINTS |-> 1, RESET_COUNTS_TIME |-> <<"0", "0", ":", "0", "0">>]

\* settings.SESSION_UPDATE_DAYS: the day threshold of the session refresh
SESSION_UPDATE_DAYS == 1

\* settings.ACCOUNT_BAN_DURATION_HOURS as configured at start, in hours
ACCOUNT_BAN_DURATION_HOURS == 1

\* the handler of an admin request has returned
\* no response body of bulk_create_accounts yet
NoReport ==
    [created_count |-> 0, duplicate_in_input |-> <<>>, duplicate_in_db |-> <<>>,
     total_skipped |-> 0]

NoAdmin ==
    [op |-> "none", loaded |-> NoAccount, dirty |-> NoAccount, rows |-> <<>>,
     new_session_id |-> Null, cred_lines |-> <<>>, session_lines |-> <<>>,
     report |-> NoReport]

\* reset_usage_counts_task before its first iteration; log holds the dates
\* of the "[ResetCounts]" lines it printed
NoDate == -1
InitResetTask ==
    [pc |-> "check", last_reset_date |-> NoDate, wake |-> 0, now |-> NoTime,
     loaded |-> <<>>, log |-> <<>>,
     expired_accounts |-> <<>>, k |-> 0, new_session_id |-> Null,
     db_account |-> NoAccount, dirty |-> NoAccount]

\* the two users of the registration service: the endpoint
\* api.register_account and the loop main.auto_register_task
RegProcs == {"register_account", "auto_register_task"}

\* a workflow not started: attempt is the loop variable of the polling,
\* polls counts the GETs of the task made, status is the last one read,
\* outcome is how the workflow ended
NoReg ==
    [pc |-> "idle", attempt |-> 0, polls |-> 0, status |-> "none",
     email |-> Null, session_id |-> Null, outcome |-> "none"]

\* no admin request and no registration in flight; the reset loop about to
\* make its first check
\* the background tasks lifespan creates, in the order it creates and
\* cancels them
LoopNames == <<"unban_accounts_task", "reset_usage_counts_task", "auto_register_task">>

\* a task asyncio.create_task has made and not yet run: pc is the await it
\* is suspended at, must_cancel says task.cancel() was called and the
\* CancelledError not yet thrown into it, cancelled that it was thrown,
\* caught that an except clause ran in the last step of the task, left
\* counts the accounts that _auto_update_expired_sessions still has to
\* process
NewTask ==
    [pc |-> "start", must_cancel |-> FALSE, cancelled |-> FALSE, caught |-> FALSE,
     left |-> 0]

InitOthers ==
    /\ clock = 0
    /\ admin = [a \in Admins |-> NoAdmin]
    /\ reg = [p \in RegProcs |-> NoReg]
    /\ reset = InitResetTask
    /\ loops = [l \in Range(LoopNames) |-> NewTask]
    /\ lifespan = "serving"

Init ==
    /\ accounts = <<>>
    /\ settings = InitSettings
    /\ now = 0
    /\ rr = 0
    /\ req = [r \in Requests |-> InitReq]
    /\ sweep = <<>>
    /\ picked = <<>>
    /\ InitOthers

----------------------------------------------------------------------------
(* main._get_region_from_session_id, main._strip_region_prefix and their   *)
(* namesakes in api                                                        *)

main_get_region_from_session_id(session_id) ==
    IF startswith(session_id, <<"u", "s", "-">>) THEN <<"u", "s">>
    ELSE IF startswith(session_id, <<"e", "u", "-">>) THEN <<"e", "u">>
    ELSE IF startswith(session_id, <<"a", "s", "i", "a", "-">>) THEN <<"a", "s", "i", "a">>
    ELSE <<"u", "s">>

main_strip_region_prefix(session_id) ==
    IF startswith(session_id, <<"u", "s", "-">>) THEN SubSeq(session_id, 4, Len(session_id))
    ELSE IF startswith(session_id, <<"e", "u", "-">>) THEN SubSeq(session_id, 4, Len(session_id))
    ELSE IF startswith(session_id, <<"a", "s", "i", "a", "-">>)
         THEN SubSeq(session_id, 6, Len(session_id))
    ELSE session_id

api_get_region_from_session_id(session_id) ==
    IF startswith(session_id, <<"u", "s", "-">>) THEN <<"u", "s">>
    ELSE IF startswith(session_id, <<"h", "k", "-">>) THEN <<"h", "k">>
    ELSE IF startswith(session_id, <<"j", "p", "-">>) THEN <<"j", "p">>
    ELSE IF startswith(session_id, <<"s", "g", "-">>) THEN <<"s", "g">>
    ELSE <<"u", "s">>

api_strip_region_prefix(session_id) ==
    IF startswith(session_id, <<"u", "s", "-">>) THEN SubSeq(session_id, 4, Len(session_id))
    ELSE IF startswith(session_id, <<"h", "k", "-">>) THEN SubSeq(session_id, 4, Len(session_id))
    ELSE IF startswith(session_id, <<"j", "p", "-">>) THEN SubSeq(session_id, 4, Len(session_id))
    ELSE IF startswith(session_id, <<"s", "g", "-">>) THEN SubSeq(session_id, 4, Len(session_id))
    ELSE session_id

\* settings.REGISTER_API_URL and settings.REGISTER_API_KEY are both set
refresh_configured ==
    Truthy(settings.REGISTER_API_URL) /\ Truthy(settings.REGISTER_API_KEY)

----------------------------------------------------------------------------
(* Admin operations and the clock *)

\* the row api.create_account builds from the request body
created_row(email, session_id, region, points, t) ==
    NewAccount(0, email, session_id, region, points,
               IF Truthy(session_id) THEN t ELSE NoTime)

\* api.create_account for an email nobody else is inserting: the check of
\* the email, then the insert; the new row gets the next rowid
create_account(email, session_id, region, points) ==
    /\ Cardinality(Ids) < MaxAccounts
    /\ ~email_exists(accounts, email)
    /\ accounts' = db_insert(accounts, <<created_row(email, session_id, region, points, now)>>)
    /\ UNCHANGED <<settings, now, rr, req, sweep, picked, others>>

\* api.create_account up to the commit: the select of the email, then the
\* row from the request body
create_account_check(a, email, session_id, region, points) ==
    /\ admin[a] = NoAdmin
    /\ Cardinality(Ids) < MaxAccounts
    /\ ~email_exists(accounts, email)
    /\ admin' = [admin EXCEPT ![a] = [NoAdmin EXCEPT !.op = "create",
                     !.rows = <<created_row(email, session_id, region, points, now)>>]]
    /\ UNCHANGED <<accounts, settings, now, rr, req, sweep, picked, clock, reg, reset, loops, lifespan>>

\* every entry of parsed_accounts, repeated emails included
all_accounts(parsed) == parsed

\* the entries of parsed_accounts whose email no earlier entry has
RECURSIVE unique_accounts(_)
unique_accounts(parsed) ==
    IF parsed = <<>> THEN <<>>
    ELSE LET front == SubSeq(parsed, 1, Len(parsed) - 1)
             acc == parsed[Len(parsed)]
         IN IF \E k \in DOMAIN front : front[k].email = acc.email
            THEN unique_accounts(front)
            ELSE Append(unique_accounts(front), acc)

\* the entries whose email the store did not have when it was asked
RECURSIVE accounts_to_create(_, _)
accounts_to_create(table, accs) ==
    IF accs = <<>> THEN <<>>
    ELSE LET front == accounts_to_create(table, SubSeq(accs, 1, Len(accs) - 1))
             acc == accs[Len(accs)]
         IN IF email_exists(table, acc.email) THEN front ELSE Append(front, acc)

\* str.strip() on a line
RECURSIVE lstrip(_)
lstrip(line) == IF line # <<>> /\ Head(line) = " " THEN lstrip(Tail(line)) ELSE line

RECURSIVE rstrip(_)
rstrip(line) ==
    IF line # <<>> /\ line[Len(line)] = " "
    THEN rstrip(SubSeq(line, 1, Len(line) - 1)) ELSE line

strip(line) == rstrip(lstrip(line))

\* [line.strip() for line in text.strip().split('\n') if line.strip()]:
\* text is given as its lines
stripped_lines(text) ==
    LET kept == SelectSeq(text, LAMBDA line : strip(line) # <<>>)
    IN [k \in DOMAIN kept |-> strip(kept[k])]

\* line.split(':', 1) and the strip of both parts
has_colon(line) == \E k \in DOMAIN line : line[k] = ":"
first_colon(line) ==
    CHOOSE k \in DOMAIN line : line[k] = ":" /\ \A j \in 1..(k - 1) : line[j] # ":"
line_email(line) == strip(SubSeq(line, 1, first_colon(line) - 1))
line_password(line) == strip(SubSeq(line, first_colon(line) + 1, Len(line)))

\* the lines that add to parse_errors
parse_error(line) ==
    IF ~has_colon(line) THEN TRUE
    ELSE line_email(line) = <<>> \/ line_password(line) = <<>>

\* parsed_accounts: line i of the credentials with session_lines[i-1]
parsed_accounts_of(cred_lines, session_lines) ==
    [k \in DOMAIN cred_lines |->
        [email |-> line_email(cred_lines[k]), session_id |-> session_lines[k]]]

\* the emails appended to duplicate_in_input
RECURSIVE duplicate_in_input(_)
duplicate_in_input(parsed) ==
    IF parsed = <<>> THEN <<>>
    ELSE LET front == SubSeq(parsed, 1, Len(parsed) - 1)
             acc == parsed[Len(parsed)]
         IN IF \E k \in DOMAIN front : front[k].email = acc.email
            THEN Append(duplicate_in_input(front), acc.email)
            ELSE duplicate_in_input(front)

\* the emails appended to duplicate_in_db
RECURSIVE duplicate_in_db(_, _)
duplicate_in_db(table, accs) ==
    IF accs = <<>> THEN <<>>
    ELSE LET front == duplicate_in_db(table, SubSeq(accs, 1, Len(accs) - 1))
             acc == accs[Len(accs)]
         IN IF email_exists(table, acc.email) THEN Append(front, acc.email) ELSE front

\* the body bulk_create_accounts returns
bulk_report(table, parsed) ==
    LET uniq == unique_accounts(parsed)
        in_input == duplicate_in_input(parsed)
        in_db == duplicate_in_db(table, uniq)
    IN [created_count |-> Len(accounts_to_create(table, uniq)),
        duplicate_in_input |-> in_input,
        duplicate_in_db |-> in_db,
        total_skipped |-> Len(in_input) + Len(in_db)]

\* api.bulk_create_accounts up to the commit; credentials and session_ids
\* are the request's two texts, each given as its lines.  A request whose
\* line counts differ or that has a line in parse_errors is answered 400
\* and changes nothing
bulk_create_accounts(a, credentials, session_ids, region, points) ==
    /\ admin[a] = NoAdmin
    /\ LET cred_lines == stripped_lines(credentials)
           session_lines == stripped_lines(session_ids)
       IN /\ Len(cred_lines) = Len(session_lines)
          /\ \A k \in DOMAIN cred_lines : ~parse_error(cred_lines[k])
          /\ LET parsed == parsed_accounts_of(cred_lines, session_lines)
                 accs == accounts_to_create(accounts, unique_accounts(parsed))
             IN /\ Cardinality(Ids) + Len(accs) <= MaxAccounts
                /\ admin' = [admin EXCEPT ![a] = [NoAdmin EXCEPT !.op = "bulk",
                                !.cred_lines = cred_lines,
                                !.session_lines = session_lines,
                                !.report = bulk_report(accounts, parsed),
                                !.rows = [k \in DOMAIN accs |->
                                            NewAccount(0, accs[k].email, accs[k].session_id,
                                                       region, points, now)]]]
    /\ UNCHANGED <<accounts, settings, now, rr, req, sweep, picked, clock, reg, reset, loops, lifespan>>

\* api.bulk_create_accounts answered 400: the line counts differ or
\* parse_errors is not empty
bulk_create_rejected(a, credentials, session_ids) ==
    /\ admin[a] = NoAdmin
    /\ LET cred_lines == stripped_lines(credentials)
           session_lines == stripped_lines(session_ids)
       IN \/ Len(cred_lines) # Len(session_lines)
          \/ \E k \in DOMAIN cred_lines : parse_error(cred_lines[k])
    /\ UNCHANGED vars

\* db.add(...) and await db.commit() of create_account and
\* bulk_create_accounts
CommitInsert(a) ==
    /\ admin[a].op \in {"create", "bulk"}
    /\ accounts' = db_insert(accounts, admin[a].rows)
    /\ admin' = [admin EXCEPT ![a] = NoAdmin]
    /\ UNCHANGED <<settings, now, rr, req, sweep, picked, clock, reg, reset, loops, lifespan>>

\* api.update_settings: setattr(settings, key, value) for the keys the
\* request body sets; a key the settings did not have is added
update_settings(update_data) ==
    /\ settings' = [k \in DOMAIN settings \cup DOMAIN update_data |->
                      IF k \in DOMAIN update_data THEN update_data[k] ELSE settings[k]]
    /\ settings' # settings
    /\ UNCHANGED <<accounts, now, rr, req, sweep, picked, others>>

\* api.delete_account: the row is gone when the handler's commit returns
delete_account(id) ==
    /\ id \in Ids
    /\ accounts' = [i \in Ids \ {id} |-> accounts[i]]
    /\ UNCHANGED <<settings, now, rr, req, sweep, picked, others>>

\* api.ban_account
ban_account(id, duration_hours) ==
    /\ id \in Ids
    /\ accounts' = [accounts EXCEPT ![id].is_banned = TRUE,
                                    ![id].ban_until = now + duration_hours]
    /\ UNCHANGED <<settings, now, rr, req, sweep, picked, others>>

\* an hour passes
\* api.update_account up to the commit: update_data holds the fields the
\* request body sets (model_dump(exclude_unset=True))
updated_row(row, update_data, t) ==
    [f \in DOMAIN row |->
        IF f \in DOMAIN update_data THEN update_data[f]
        ELSE IF /\ f = "session_id_updated_at"
                /\ "session_id" \in DOMAIN update_data
                /\ update_data.session_id # row.session_id
             THEN t
             ELSE row[f]]

update_account(a, id, update_data) ==
    /\ admin[a] = NoAdmin
    /\ id \in Ids
    /\ admin' = [admin EXCEPT ![a] = [NoAdmin EXCEPT !.op = "update",
                     !.loaded = db_get(id),
                     !.dirty = <<updated_row(accounts[id], update_data, now)>>]]
    /\ UNCHANGED <<accounts, settings, now, rr, req, sweep, picked, clock, reg, reset, loops, lifespan>>

\* api.unban_account up to the commit
unban_account(a, id) ==
    /\ admin[a] = NoAdmin
    /\ id \in Ids
    /\ admin' = [admin EXCEPT ![a] = [NoAdmin EXCEPT !.op = "unban",
                     !.loaded = db_get(id),
                     !.dirty = <<[accounts[id] EXCEPT !.is_banned = FALSE,
                                                     !.ban_until = NoTime]>>]]
    /\ UNCHANGED <<accounts, settings, now, rr, req, sweep, picked, clock, reg, reset, loops, lifespan>>

\* api.update_account_session up to the POST to /session/update
update_account_session(a, id) ==
    /\ admin[a] = NoAdmin
    /\ refresh_configured
    /\ id \in Ids
    /\ admin' = [admin EXCEPT ![a] = [NoAdmin EXCEPT !.op = "session_call",
                                                     !.loaded = db_get(id)]]
    /\ UNCHANGED <<accounts, settings, now, rr, req, sweep, picked, clock, reg, reset, loops, lifespan>>

\* what api.update_account_session sets on the row it loaded
session_updated_row(row, new_session_id, t) ==
    [row EXCEPT !.session_id = api_strip_region_prefix(new_session_id),
                !.session_id_updated_at = t,
                !.region = api_get_region_from_session_id(new_session_id)]

\* the reply of /session/update: an error, a reply without session_id, or
\* a new session id, which the handler puts on the row up to the commit
SessionReply(a, ok, new_session_id) ==
    /\ admin[a].op = "session_call"
    /\ admin' = [admin EXCEPT ![a] =
                   IF ok /\ Truthy(new_session_id)
                   THEN [admin[a] EXCEPT
                            !.op = "session", !.new_session_id = new_session_id,
                            !.dirty = <<session_updated_row(admin[a].loaded[1],
                                                            new_session_id, now)>>]
                   ELSE NoAdmin]
    /\ UNCHANGED <<accounts, settings, now, rr, req, sweep, picked, clock, reg, reset, loops, lifespan>>

\* the UPDATE of a row would give it the email of another row
update_breaks_unique(table, loaded, dirty) ==
    /\ dirty.email # loaded.email
    /\ \E i \in DOMAIN table : i # loaded.id /\ table[i].email = dirty.email

\* await db.commit() of update_account, unban_account and
\* update_account_session
CommitRow(a) ==
    /\ admin[a].op \in {"update", "unban", "session"}
    /\ accounts' = IF update_breaks_unique(accounts, admin[a].loaded[1], admin[a].dirty[1])
                   THEN accounts
                   ELSE commit_rows(accounts, admin[a].loaded, admin[a].dirty)
    /\ admin' = [admin EXCEPT ![a] = NoAdmin]
    /\ UNCHANGED <<settings, now, rr, req, sweep, picked, clock, reg, reset, loops, lifespan>>

Tick(limit) ==
    /\ now < limit
    /\ now' = now + 1
    /\ clock' = clock + TicksPerMinute * MinutesPerHour
    /\ UNCHANGED <<accounts, settings, rr, req, sweep, picked, admin, reg, reset, loops, lifespan>>

----------------------------------------------------------------------------
(* proxy_request *)

\* the handler and its background task have returned: their locals are gone;
\* what stays is how the request ended (the error raised, the task it ran)
\* the outcome of the request rewritten when its task ends
Finished_reports_task(q) ==
    [InitReq EXCEPT !.pc = "done", !.sent = q.sent, !.error = "TaskFailed", !.task = q.task]

Finished(q) ==
    [InitReq EXCEPT !.pc = "done", !.sent = q.sent, !.error = q.error, !.task = q.task]

\* steps 1-3 up to the eligibility query
Receive(r, authorized, model_name) ==
    /\ req[r].pc = "idle"
    /\ \A q \in Requests : q < r => req[q].pc # "idle"
    /\ IF ~authorized
       THEN req' = [req EXCEPT ![r] = Finished([@ EXCEPT !.error = "Unauthorized"])]
       ELSE req' = [req EXCEPT ![r].pc = "select", ![r].model = model_name,
                               ![r].now = now,
                               ![r].accounts = query_valid_accounts(model_name, now)]
    /\ UNCHANGED <<accounts, settings, now, rr, sweep, picked, others>>

\* get_valid_account after the query returned nothing, and the 503 of step 3
SelectNone(r) ==
    /\ req[r].pc = "select"
    /\ req[r].accounts = <<>>
    /\ req' = [req EXCEPT ![r] = Finished([@ EXCEPT !.error = "NoCapacity"])]
    /\ UNCHANGED <<accounts, settings, now, rr, sweep, picked, others>>

\* get_valid_account after the query returned rows: the round-robin pick
SelectAccount(r) ==
    /\ req[r].pc = "select"
    /\ req[r].accounts # <<>>
    /\ rr' = next_index(rr, Len(req[r].accounts))
    /\ req' = [req EXCEPT ![r].pc = "forward", ![r].accounts = <<>>, ![r].now = NoTime,
                          ![r].account = <<req[r].accounts[rr' + 1]>>]
    /\ UNCHANGED <<accounts, settings, now, sweep, picked, others>>

scheduled_task_400_is_success(status_code) ==
    IF status_code \in {429, 500, 524} THEN "ban"
    ELSE IF status_code <= 400 THEN "usage"
    ELSE "none"

\* what step 6 schedules for an upstream status
scheduled_task(status_code) ==
    IF status_code \in {429, 500, 524} THEN "ban"
    ELSE IF status_code < 400 THEN "usage"
    ELSE "none"

\* steps 5-6 with an upstream response: the Response returned, the task added
ForwardResponse(r, status_code, content) ==
    /\ req[r].pc = "forward"
    /\ req' = [req EXCEPT ![r].pc = "responded", ![r].sent = TRUE,
                          ![r].status = status_code, ![r].body = content,
                          ![r].respStatus = status_code, ![r].respBody = content,
                          ![r].task = scheduled_task(status_code)]
    /\ UNCHANGED <<accounts, settings, now, rr, sweep, picked, others>>

ForwardError_bans(r) ==
    /\ req[r].pc = "forward"
    /\ req' = [req EXCEPT ![r].pc = "responded", ![r].sent = TRUE, ![r].task = "ban",
                          ![r].error = "UpstreamUnreachable"]
    /\ UNCHANGED <<accounts, settings, now, rr, sweep, picked, others>>

\* step 5 with httpx.RequestError
ForwardError(r) ==
    /\ req[r].pc = "forward"
    /\ req' = [req EXCEPT ![r] = Finished([@ EXCEPT !.sent = TRUE,
                                                     !.error = "UpstreamUnreachable"])]
    /\ UNCHANGED <<accounts, settings, now, rr, sweep, picked, others>>

----------------------------------------------------------------------------
(* Background tasks of a request, run after the response was sent *)

\* no task was added
NoTask(r) ==
    /\ req[r].pc = "responded"
    /\ req[r].task = "none"
    /\ req' = [req EXCEPT ![r] = Finished(@)]
    /\ UNCHANGED <<accounts, settings, now, rr, sweep, picked, others>>

\* ban_account_temp up to the commit
BanLoad(r) ==
    /\ req[r].pc = "responded"
    /\ req[r].task = "ban"
    /\ LET got == db_get(req[r].account[1].id)
       IN IF got = NoAccount
          THEN req' = [req EXCEPT ![r] = Finished(@)]
          ELSE req' = [req EXCEPT ![r].pc = "ban_commit", ![r].loaded = got,
                                  ![r].dirty = <<ban_fields(got[1], now, DefaultBanHours)>>]
    /\ UNCHANGED <<accounts, settings, now, rr, sweep, picked, others>>

BanCommit(r) ==
    /\ req[r].pc = "ban_commit"
    /\ accounts' = commit_rows(accounts, req[r].loaded, req[r].dirty)
    /\ req' = [req EXCEPT ![r] = Finished(@)]
    /\ UNCHANGED <<settings, now, rr, sweep, picked, others>>

\* update_account_usage up to the credit lookup
UsageLoad(r) ==
    /\ req[r].pc = "responded"
    /\ req[r].task = "usage"
    /\ LET got == db_get(req[r].account[1].id)
       IN IF got = NoAccount
          THEN req' = [req EXCEPT ![r] = Finished(@)]
          ELSE req' = [req EXCEPT ![r].pc = "usage_commit", ![r].loaded = got,
                                  ![r].dirty = <<increment_usage(got[1], req[r].model)>>]
    /\ UNCHANGED <<accounts, settings, now, rr, sweep, picked, others>>

\* the credit lookup's result and the commit
UsageCommit(r, credit) ==
    /\ req[r].pc = "usage_commit"
    /\ IF credit_lookup_issued(req[r].loaded[1])
       THEN credit \in credit_results(req[r].loaded[1])
       ELSE credit = NoCredit
    /\ LET dirty == IF credit # NoCredit
                    THEN <<[req[r].dirty[1] EXCEPT !.points = credit]>>
                    ELSE req[r].dirty
       IN accounts' = commit_rows(accounts, req[r].loaded, dirty)
    /\ req' = [req EXCEPT ![r] = Finished(@)]
    /\ UNCHANGED <<settings, now, rr, sweep, picked, others>>

\* update_account_usage from the credit lookup on, with the reply the
\* commerce API gives when the lookup is issued
UsageFinish(r, reply) ==
    /\ req[r].pc = "usage_commit"
    /\ UsageCommit(r, IF credit_lookup_issued(req[r].loaded[1])
                      THEN fetch_account_credit(req[r].loaded[1].session_id,
                                                req[r].loaded[1].region, reply)
                      ELSE NoCredit)

----------------------------------------------------------------------------
(* unban_accounts_task: one iteration *)

expired_ban(row, t) == row.is_banned = TRUE /\ row.ban_until # NoTime /\ row.ban_until <= t

SweepLoad ==
    /\ sweep = <<>>
    /\ LET ids == SortedIds({i \in Ids : expired_ban(accounts[i], now)})
       IN /\ ids # <<>>
          /\ sweep' = [k \in 1..Len(ids) |-> accounts[ids[k]]]
    /\ UNCHANGED <<accounts, settings, now, rr, req, picked, others>>

unbanned(row) == [row EXCEPT !.is_banned = FALSE, !.ban_until = NoTime]

SweepCommit_not_committed ==
    /\ sweep # <<>>
    /\ sweep' = <<>>
    /\ UNCHANGED <<accounts, settings, now, rr, req, picked, others>>

SweepCommit ==
    /\ sweep # <<>>
    /\ accounts' = commit_rows(accounts, sweep, [k \in DOMAIN sweep |-> unbanned(sweep[k])])
    /\ sweep' = <<>>
    /\ UNCHANGED <<settings, now, rr, req, picked, others>>

----------------------------------------------------------------------------
(* reset_usage_counts_task: one iteration, with the stale-session refresh  *)
(* it awaits after a reset                                                 *)

\* the loop is running or waiting for the store, not asleep and not waiting
\* for the registration service
reset_running == reset.pc \notin {"sleep", "refresh_call"}

\* time passes, half a minute at a time: the loop wakes when its sleep is
\* over, and its work between two awaits of the network, calls of the store
\* included, takes less than the half minute
ClockTick(limit) ==
    /\ clock < limit
    /\ ~reset_running
    /\ ~(reset.pc = "sleep" /\ clock >= reset.wake)
    /\ clock' = clock + 1
    /\ now' = clock' \div (TicksPerMinute * MinutesPerHour)
    /\ UNCHANGED <<accounts, settings, rr, req, sweep, picked, admin, reg, reset, loops, lifespan>>

reset_due_every_check(t, last_reset_date, reset_time) ==
    /\ hour_of(t) = reset_hour(reset_time)
    /\ minute_of(t) = reset_minute(reset_time)

\* the reset time has come and today has not been reset
reset_due(t, last_reset_date, reset_time) ==
    /\ hour_of(t) = reset_hour(reset_time)
    /\ minute_of(t) = reset_minute(reset_time)
    /\ last_reset_date # date_of(t)

\* asyncio.sleep(30) at the end of the iteration
Asleep(task) ==
    [task EXCEPT !.pc = "sleep", !.wake = clock + 1, !.loaded = <<>>,
                 !.expired_accounts = <<>>, !.k = 0, !.new_session_id = Null,
                 !.db_account = NoAccount, !.dirty = NoAccount]

\* the check at the top of the iteration; when due, the select of every row
ResetCheck ==
    /\ reset.pc = "check" \/ (reset.pc = "sleep" /\ clock >= reset.wake)
    /\ IF reset_due(clock, reset.last_reset_date, settings.RESET_COUNTS_TIME)
       THEN reset' = [reset EXCEPT !.pc = "commit", !.now = clock,
                         !.loaded = [k \in 1..Cardinality(Ids) |->
                                        accounts[SortedIds(Ids)[k]]]]
       ELSE reset' = [Asleep(reset) EXCEPT !.now = clock]
    /\ UNCHANGED <<accounts, settings, now, rr, req, sweep, picked, clock, admin, reg, loops, lifespan>>

zeroed_every_count_column(row) ==
    [row EXCEPT !.jimeng_4_0_count = 0, !.jimeng_4_1_count = 0, !.nanobanana_count = 0,
                !.nanobananapro_count = 0, !.video_3_0_count = 0, !.error_count = 0]

\* setattr(account, field, 0) for every *_count column but error_count
zeroed(row) ==
    [row EXCEPT !.jimeng_4_0_count = 0, !.jimeng_4_1_count = 0, !.nanobanana_count = 0,
                !.nanobananapro_count = 0, !.video_3_0_count = 0]

\* the flush meets a row that is gone
commit_fails(table, loadedRows) ==
    \E k \in DOMAIN loadedRows : loadedRows[k].id \notin DOMAIN table

\* the commit of the reset; then last_reset_date, the printed line, and the
\* call of _auto_update_expired_sessions up to its first await
ResetCommit ==
    /\ reset.pc = "commit"
    /\ accounts' = commit_rows(accounts, reset.loaded,
                               [k \in DOMAIN reset.loaded |-> zeroed(reset.loaded[k])])
    /\ IF commit_fails(accounts, reset.loaded)
       THEN reset' = Asleep(reset)
       ELSE LET done == [reset EXCEPT !.last_reset_date = date_of(reset.now),
                                      !.log = Append(@, date_of(reset.now))]
            IN reset' = IF refresh_configured
                        THEN [done EXCEPT !.pc = "refresh_query", !.loaded = <<>>]
                        ELSE Asleep(done)
    /\ UNCHANGED <<settings, now, rr, req, sweep, picked, clock, admin, reg, loops, lifespan>>

\* session_id_updated_at is null or older than the threshold
session_expired(row, t, threshold_days) ==
    \/ row.session_id_updated_at = NoTime
    \/ row.session_id_updated_at < t - threshold_days * HoursPerDay

\* _auto_update_expired_sessions: the query for the accounts to refresh
RefreshQuery ==
    /\ reset.pc = "refresh_query"
    /\ LET ids == SortedIds({i \in Ids : session_expired(accounts[i], now,
                                                        SESSION_UPDATE_DAYS)})
       IN reset' = IF ids = <<>> THEN Asleep(reset)
                   ELSE [reset EXCEPT !.pc = "refresh_call", !.k = 1,
                            !.expired_accounts = [k \in 1..Len(ids) |-> accounts[ids[k]]]]
    /\ UNCHANGED <<accounts, settings, now, rr, req, sweep, picked, clock, admin, reg, loops, lifespan>>

NextExpired_stops_run(task) == Asleep(task)

\* on to the next account of the list, or out of the function
NextExpired(task) ==
    IF task.k < Len(task.expired_accounts)
    THEN [task EXCEPT !.pc = "refresh_call", !.k = @ + 1, !.new_session_id = Null,
                      !.db_account = NoAccount, !.dirty = NoAccount]
    ELSE Asleep(task)

\* the POST to /session/update for expired_accounts[k]: an exception, a
\* reply without session_id, or a new session id
RefreshCall(ok, new_session_id) ==
    /\ reset.pc = "refresh_call"
    /\ reset' = IF ok /\ Truthy(new_session_id)
                THEN [reset EXCEPT !.pc = "refresh_get", !.new_session_id = new_session_id]
                ELSE NextExpired(reset)
    /\ UNCHANGED <<accounts, settings, now, rr, req, sweep, picked, clock, admin, reg, loops, lifespan>>

\* what the refresh sets on the row it read
refreshed_row(row, new_session_id, t) ==
    [row EXCEPT !.session_id = main_strip_region_prefix(new_session_id),
                !.session_id_updated_at = t,
                !.region = main_get_region_from_session_id(new_session_id)]

\* db_session.get(Account, account.id) and the three assignments
RefreshGet ==
    /\ reset.pc = "refresh_get"
    /\ LET got == db_get(reset.expired_accounts[reset.k].id)
       IN reset' = IF got = NoAccount THEN NextExpired(reset)
                   ELSE [reset EXCEPT !.pc = "refresh_commit", !.db_account = got,
                            !.dirty = <<refreshed_row(got[1], reset.new_session_id, now)>>]
    /\ UNCHANGED <<accounts, settings, now, rr, req, sweep, picked, clock, admin, reg, loops, lifespan>>

RefreshCommit ==
    /\ reset.pc = "refresh_commit"
    /\ accounts' = commit_rows(accounts, reset.db_account, reset.dirty)
    /\ reset' = NextExpired(reset)
    /\ UNCHANGED <<settings, now, rr, req, sweep, picked, clock, admin, reg, loops, lifespan>>

----------------------------------------------------------------------------
(* The registration workflow: api.register_account and one cycle of        *)
(* main.auto_register_task                                                 *)

max_attempts == 60

\* how the workflow of p ended: the endpoint raises an HTTPException with a
\* status, the loop prints and leaves the polling
Ended(p, task, status_code, printed) ==
    [task EXCEPT !.pc = "done", !.email = Null, !.session_id = Null,
                 !.outcome = IF p = "register_account" THEN status_code ELSE printed]

\* step 1: the POST that creates the registration task
RegStart(p, task_id) ==
    /\ reg[p].pc \in {"idle", "done"}
    /\ Cardinality(Ids) < MaxAccounts
    /\ reg' = [reg EXCEPT ![p] =
                 IF ~refresh_configured THEN Ended(p, NoReg, "400", "not configured")
                 ELSE IF ~Truthy(task_id) THEN Ended(p, NoReg, "500", "no task_id")
                 ELSE [NoReg EXCEPT !.pc = "poll"]]
    /\ UNCHANGED <<accounts, settings, now, rr, req, sweep, picked, clock, admin, reset, loops, lifespan>>

polls_exhausted_never(attempt) == FALSE

\* for attempt in range(max_attempts): the pass that was just made was the last
polls_exhausted(attempt) == attempt + 1 >= max_attempts

\* step 2: one GET of the task and what the workflow does with the reply;
\* reply.kind is "error" for an exception, else the status read
RegPoll(p, reply) ==
    /\ reg[p].pc = "poll"
    /\ LET polled == [reg[p] EXCEPT !.polls = @ + 1, !.status = reply.kind]
       IN reg' = [reg EXCEPT ![p] =
            CASE reply.kind = "error" -> Ended(p, polled, "500", "poll failed")
              [] reply.kind = "completed" ->
                    IF ~Truthy(reply.email) \/ ~Truthy(reply.session_id)
                    THEN Ended(p, polled, "500", "incomplete")
                    ELSE [polled EXCEPT !.pc = "check", !.email = reply.email,
                                        !.session_id = reply.session_id]
              [] reply.kind = "failed" -> Ended(p, polled, "500", "failed")
              [] OTHER ->
                    IF polls_exhausted(polled.attempt)
                    THEN Ended(p, polled, "408", "timeout")
                    ELSE [polled EXCEPT !.attempt = @ + 1]]
    /\ UNCHANGED <<accounts, settings, now, rr, req, sweep, picked, clock, admin, reset, loops, lifespan>>

\* the select of the email
RegCheck(p) ==
    /\ reg[p].pc = "check"
    /\ reg' = [reg EXCEPT ![p] = IF email_exists(accounts, reg[p].email)
                                 THEN Ended(p, @, "400", "exists")
                                 ELSE [@ EXCEPT !.pc = "insert"]]
    /\ UNCHANGED <<accounts, settings, now, rr, req, sweep, picked, clock, admin, reset, loops, lifespan>>

\* the row the workflow of p builds from the session id it was given
registered_row(p, session_id, t) ==
    IF p = "register_account"
    THEN NewAccount(0, reg[p].email, api_strip_region_prefix(session_id),
                    api_get_region_from_session_id(session_id),
                    settings.DEFAULT_POINTS, t)
    ELSE NewAccount(0, reg[p].email, main_strip_region_prefix(session_id),
                    main_get_region_from_session_id(session_id),
                    settings.DEFAULT_POINTS, t)

\* db.add(new_account) and the commit
RegInsert(p) ==
    /\ reg[p].pc = "insert"
    /\ LET rows == <<registered_row(p, reg[p].session_id, now)>>
       IN /\ accounts' = db_insert(accounts, rows)
          /\ reg' = [reg EXCEPT ![p] =
                       IF unique_email_violated(accounts, rows)
                       THEN Ended(p, @, "500", "error")
                       ELSE Ended(p, @, "200", "registered")]
    /\ UNCHANGED <<settings, now, rr, req, sweep, picked, clock, admin, reset, loops, lifespan>>

----------------------------------------------------------------------------
(* The three background tasks as asyncio tasks: the awaits each can be     *)
(* suspended at, the try blocks around them, and lifespan's shutdown.      *)
(* A step of a task runs it from the await it is suspended at to the next. *)

\* asyncio.sleep(...): raises nothing but CancelledError
Sleeps ==
    {"sleep", "refresh_delay", "poll_sleep", "interval_sleep", "disabled_sleep",
     "error_sleep"}

\* the awaits from which the task goes to the top of its while loop
LoopEnd == {"start", "sleep", "interval_sleep", "disabled_sleep", "error_sleep"}

\* _auto_update_expired_sessions after an account of the list: the next
\* account, the delay between two batches, or the end of the list
RefreshNext(left) == IF left > 1 THEN {"refresh_post", "refresh_delay"} ELSE {"sleep"}

\* auto_register_task at the top of its loop: not enabled, not configured,
\* or the POST that creates the registration task
RegisterTop == {"disabled_sleep", "interval_sleep", "post"}

\* the awaits that can follow the await at pc when nothing is raised
body_next(l, pc, left) ==
    CASE l = "unban_accounts_task" ->
            (CASE pc \in {"start", "sleep"} -> {"execute"}
               [] pc = "execute" -> {"commit", "sleep"}
               [] pc = "commit" -> {"sleep"})
      [] l = "reset_usage_counts_task" ->
            (CASE pc \in {"start", "sleep"} -> {"execute", "sleep"}
               [] pc = "execute" -> {"commit"}
               [] pc = "commit" -> {"refresh_query", "sleep"}
               [] pc = "refresh_query" -> {"refresh_post", "sleep"}
               [] pc = "refresh_post" -> {"refresh_get"} \cup RefreshNext(left)
               [] pc = "refresh_get" -> {"refresh_commit"} \cup RefreshNext(left)
               [] pc = "refresh_commit" -> RefreshNext(left)
               [] pc = "refresh_delay" -> {"refresh_post"})
      [] l = "auto_register_task" ->
            (CASE pc \in {"start", "interval_sleep", "disabled_sleep", "error_sleep"} ->
                    RegisterTop
               [] pc = "post" -> {"poll", "interval_sleep"}
               [] pc = "poll" -> {"db_execute", "poll_sleep", "interval_sleep"}
               [] pc = "poll_sleep" -> {"poll"}
               [] pc = "db_execute" -> {"db_commit", "interval_sleep"}
               [] pc = "db_commit" -> {"interval_sleep"})

\* where the innermost try around the await at pc resumes the task when its
\* except clause takes what the await raised; {} when no try is around it
await_handler(l, pc, left) ==
    CASE l = "unban_accounts_task" ->
            IF pc \in {"execute", "commit"} THEN {"sleep"} ELSE {}
      [] l = "reset_usage_counts_task" ->
            IF pc \in {"refresh_post", "refresh_get", "refresh_commit"} THEN RefreshNext(left)
            ELSE IF pc \in {"execute", "commit", "refresh_query", "refresh_delay"}
                 THEN {"sleep"}
            ELSE {}
      [] l = "auto_register_task" ->
            IF pc \in {"post", "poll"} THEN {"interval_sleep"}
            ELSE IF pc \in {"start", "error_sleep"} THEN {}
            ELSE {"error_sleep"}

\* the same for the code that runs after the await at pc returned, up to
\* the next await
after_handler(l, pc, left) ==
    CASE l = "unban_accounts_task" -> {"sleep"}
      [] l = "reset_usage_counts_task" ->
            IF pc \in {"refresh_post", "refresh_get", "refresh_commit"} THEN RefreshNext(left)
            ELSE {"sleep"}
      [] l = "auto_register_task" -> {"error_sleep"}

except_nothing(exc) == FALSE

except_BaseException(exc) == TRUE

\* `except Exception`: asyncio.CancelledError derives from BaseException
except_Exception(exc) == exc = "Exception"

\* what is raised at site ("await": by the await at pc itself, "after": by
\* the code after it): a pending cancellation is thrown in by the await;
\* a sleep and the start of the task raise nothing else
may_raise(task, site, exc) ==
    IF task.must_cancel THEN site = "await" /\ exc = "CancelledError"
    ELSE \/ exc = "none" /\ site = "await"
         \/ exc = "Exception" /\ site = "after"
         \/ exc = "Exception" /\ site = "await" /\ task.pc \notin Sleeps \cup {"start"}

\* the awaits the step can reach; "ended" when the exception leaves the task
step_targets(l, task, site, exc) ==
    IF exc = "none" THEN body_next(l, task.pc, task.left)
    ELSE LET handler == IF site = "await" THEN await_handler(l, task.pc, task.left)
                        ELSE after_handler(l, task.pc, task.left)
         IN IF handler # {} /\ except_Exception(exc) THEN handler ELSE {"ended"}

\* the accounts left after the step; n is the length of the list the query
\* of the refresh returned
left_after(task, next, n) ==
    IF next \in {"refresh_get", "refresh_commit"} \/ task.pc = "refresh_delay" THEN task.left
    ELSE IF next \in {"refresh_post", "refresh_delay"}
         THEN (IF task.pc = "refresh_query" THEN n ELSE task.left - 1)
    ELSE 0

\* one task runs from the await it is suspended at to its next await
LoopStep(l, site, exc, next, n) ==
    /\ loops[l].pc # "ended"
    /\ may_raise(loops[l], site, exc)
    /\ next \in step_targets(l, loops[l], site, exc)
    /\ LET task == loops[l]
       IN loops' = [loops EXCEPT ![l] =
             [pc |-> next,
              must_cancel |-> FALSE,
              cancelled |-> task.cancelled \/ exc = "CancelledError",
              caught |-> exc # "none" /\ next # "ended",
              left |-> left_after(task, next, n)]]
    /\ UNCHANGED <<accounts, settings, now, rr, req, sweep, picked, clock, admin, reg,
                   reset, lifespan>>

\* task.cancel(): a task that has ended is left as it is
cancel(tasks, l) ==
    IF tasks[l].pc = "ended" THEN tasks
    ELSE [tasks EXCEPT ![l].must_cancel = TRUE]

\* lifespan after the yield, up to `await _unban_task`
Shutdown ==
    /\ lifespan = "serving"
    /\ loops' = cancel(loops, LoopNames[1])
    /\ lifespan' = LoopNames[1]
    /\ UNCHANGED <<accounts, settings, now, rr, req, sweep, picked, clock, admin, reg, reset>>

\* the awaited task has ended: the next task is cancelled and awaited, or
\* lifespan returns
ShutdownNext ==
    /\ lifespan \in Range(LoopNames)
    /\ loops[lifespan].pc = "ended"
    /\ LET k == CHOOSE k \in DOMAIN LoopNames : LoopNames[k] = lifespan
       IN IF k < Len(LoopNames)
          THEN /\ loops' = cancel(loops, LoopNames[k + 1])
               /\ lifespan' = LoopNames[k + 1]
          ELSE /\ lifespan' = "stopped"
               /\ UNCHANGED loops
    /\ UNCHANGED <<accounts, settings, now, rr, req, sweep, picked, clock, admin, reg, reset>>

----------------------------------------------------------------------------
(* Spec: the proxy path over accounts with a usable credential, put in the *)
(* pool at time 0.  Two requests run concurrently, each through selection, *)
(* forwarding and its background task.                                     *)

Next ==
    \/ now = 0 /\ \E p \in PointValues :
                      create_account(EmailOf(NextId), <<"s">>, <<"u", "s">>, p)
    \/ Tick(MaxTime)
    \/ \E r \in Requests, a \in BOOLEAN, m \in ModelNames : Receive(r, a, m)
    \/ \E r \in Requests : SelectNone(r)
    \/ \E r \in Requests : SelectAccount(r)
    \/ \E r \in Requests, u \in Responses : ForwardResponse(r, u[1], u[2])
    \/ \E r \in Requests : ForwardError(r)
    \/ \E r \in Requests : NoTask(r)
    \/ \E r \in Requests : BanLoad(r)
    \/ \E r \in Requests : BanCommit(r)
    \/ \E r \in Requests : UsageLoad(r)
    \/ \E r \in Requests, c \in {NoCredit} \cup PointValues : UsageCommit(r, c)

Spec == Init /\ [][Next]_vars

----------------------------------------------------------------------------
(* SpecSel: the selector over ban states and time: admin create with a     *)
(* usable credential at time 0, admin ban, the clock, the unban sweep, and *)
(* one request taken as far as its selection.                              *)

NextSel ==
    \/ now = 0 /\ \E p \in PointValues :
                      create_account(EmailOf(NextId), <<"s">>, <<"u", "s">>, p)
    \/ \E i \in Ids, h \in AdminBanHours : ban_account(i, h)
    \/ Tick(MaxSelTime)
    \/ \E a \in BOOLEAN, m \in ModelNames : Receive(1, a, m)
    \/ SelectNone(1)
    \/ SelectAccount(1)
    \/ SweepLoad
    \/ SweepCommit

SpecSel == Init /\ [][NextSel]_vars

----------------------------------------------------------------------------
(* SpecCred: the selector over every kind of stored credential: admin      *)
(* create with a null, empty or non-empty session_id, and one request      *)
(* taken as far as its selection.                                          *)

NextCred ==
    \/ \E s \in SessionValues, p \in PointValues :
          create_account(EmailOf(NextId), s, <<"u", "s">>, p)
    \/ \E a \in BOOLEAN, m \in ModelNames : Receive(1, a, m)
    \/ SelectNone(1)
    \/ SelectAccount(1)

SpecCred == Init /\ [][NextCred]_vars

----------------------------------------------------------------------------
(* SpecRace: the ban state under the forwarder's ban task, the admin ban,  *)
(* the clock and the unban sweep, each reading the row and committing in   *)
(* separate steps.  One request is answered 429.                           *)

NextRace ==
    \/ now = 0 /\ create_account(EmailOf(NextId), <<"s">>, <<"u", "s">>, 1)
    \/ \E i \in Ids, h \in AdminBanHours : ban_account(i, h)
    \/ Tick(MaxBanTime)
    \/ Receive(1, TRUE, "unknown")
    \/ SelectNone(1)
    \/ SelectAccount(1)
    \/ ForwardResponse(1, 429, "rate limited")
    \/ BanLoad(1)
    \/ BanCommit(1)
    \/ SweepLoad
    \/ SweepCommit

SpecRace == Init /\ [][NextRace]_vars

----------------------------------------------------------------------------
(* SpecBan: the ban state under the admin operations that write it (ban,   *)
(* unban, and update with is_banned or ban_until in the request body), the *)
(* clock and the unban sweep.                                              *)

BanUpdates ==
    {[is_banned |-> TRUE], [is_banned |-> FALSE], [ban_until |-> NoTime],
     [is_banned |-> TRUE, ban_until |-> 1]}

NextBan ==
    \/ now = 0 /\ create_account(EmailOf(NextId), <<"s">>, <<"u", "s">>, 1)
    \/ \E i \in Ids, h \in AdminBanHours : ban_account(i, h)
    \/ Tick(MaxBanTime)
    \/ SweepLoad
    \/ SweepCommit
    \/ \E i \in Ids : unban_account(1, i)
    \/ \E i \in Ids, u \in BanUpdates : update_account(1, i, u)
    \/ CommitRow(1)

SpecBan == Init /\ [][NextBan]_vars

----------------------------------------------------------------------------
(* SpecSweep: passes of the unban sweep in succession, with no time        *)
(* passing and nothing else writing, over any store of flagged accounts.   *)

InitSweep ==
    /\ \E n \in 1..MaxPool : \E until \in [1..n -> {NoTime} \cup 0..MaxBanTime] :
          accounts = [i \in 1..n |->
                         [NewAccount(i, EmailOf(i), <<"s">>, <<"u", "s">>, 1, 0)
                             EXCEPT !.is_banned = TRUE, !.ban_until = until[i]]]
    /\ settings = InitSettings
    /\ now \in 0..MaxBanTime
    /\ rr = 0
    /\ req = [r \in Requests |-> InitReq]
    /\ sweep = <<>>
    /\ picked = <<>>
    /\ clock = now * TicksPerMinute * MinutesPerHour
    /\ admin = [a \in Admins |-> NoAdmin]
    /\ reg = [p \in RegProcs |-> NoReg]
    /\ reset = InitResetTask
    /\ loops = [l \in Range(LoopNames) |-> NewTask]
    /\ lifespan = "serving"

NextSweep == SweepLoad \/ SweepCommit

SpecSweep == InitSweep /\ [][NextSweep]_vars

----------------------------------------------------------------------------
(* SpecClear: the ban state over time with the unban sweep running on:     *)
(* admin bans that run out within the hours the model lets pass, admin     *)
(* updates that set is_banned, the clock and the sweep.  Time passes, the  *)
(* sweep's passes and a started admin handler go on (weak fairness).       *)

NextClear ==
    \/ now = 0 /\ create_account(EmailOf(NextId), <<"s">>, <<"u", "s">>, 1)
    \/ \E i \in Ids, h \in AdminBanHours : now + h <= MaxBanTime /\ ban_account(i, h)
    \/ \E i \in Ids : update_account(1, i, [is_banned |-> TRUE])
    \/ CommitRow(1)
    \/ Tick(MaxBanTime)
    \/ SweepLoad
    \/ SweepCommit

SpecClear ==
    /\ Init
    /\ [][NextClear]_vars
    /\ WF_vars(Tick(MaxBanTime))
    /\ WF_vars(SweepLoad)
    /\ WF_vars(SweepCommit)
    /\ WF_vars(CommitRow(1))

\* C30: every account that is flagged as banned is later found with
\* is_banned = false and ban_until = null: no account stays banned forever
C30_EveryBanCleared ==
    \A i \in 1..MaxAccounts :
        (i \in Ids /\ accounts[i].is_banned = TRUE)
           ~> (i \in Ids /\ accounts[i].is_banned = FALSE /\ accounts[i].ban_until = NoTime)

----------------------------------------------------------------------------
(* SpecTask: two requests with their background tasks over a store whose   *)
(* accounts the admin creates and deletes at any moment: before the        *)
(* selection, between the selection and the task, and between the task's   *)
(* read and its commit.                                                    *)

TaskStatuses == {200, 429}

NextTask ==
    \/ now = 0 /\ NextId <= MaxAccounts /\ req = [r \in Requests |-> InitReq]
              /\ create_account(EmailOf(NextId), <<"s">>, <<"u", "s">>, 1)
    \/ \E i \in Ids : delete_account(i)
    \/ \E r \in Requests : Receive(r, TRUE, "jimeng-4.1")
    \/ \E r \in Requests : SelectNone(r)
    \/ \E r \in Requests : SelectAccount(r)
    \/ \E r \in Requests, st \in TaskStatuses : ForwardResponse(r, st, "body")
    \/ \E r \in Requests : BanLoad(r)
    \/ \E r \in Requests : BanCommit(r)
    \/ \E r \in Requests : UsageLoad(r)
    \/ \E r \in Requests, c \in {NoCredit, 1} : UsageCommit(r, c)

SpecTask == Init /\ [][NextTask]_vars

----------------------------------------------------------------------------
(* SpecCredit: usage updates with every kind of reply of the credit lookup, *)
(* on one account of any region, used once before or not, one request       *)
(* after the other.                                                          *)

CreditRegions == {<<"u", "s">>, <<"h", "k">>, <<"c", "n">>, <<"C", "N">>, <<>>}
CreditModel == "nanobananapro"

InitCredit ==
    /\ \E region \in CreditRegions, s \in {<<"s">>, <<>>}, p \in PointValues, c \in {0, 1} :
          accounts = <<[NewAccount(1, EmailOf(1), s, region, p, 0)
                           EXCEPT !.nanobananapro_count = c]>>
    /\ settings = InitSettings
    /\ now = 0
    /\ rr = 0
    /\ req = [r \in Requests |-> InitReq]
    /\ sweep = <<>>
    /\ picked = <<>>
    /\ InitOthers

NextCredit ==
    \/ \E r \in Requests :
          (\A q \in Requests : q < r => req[q].pc = "done") /\ Receive(r, TRUE, CreditModel)
    \/ \E r \in Requests : SelectNone(r)
    \/ \E r \in Requests : SelectAccount(r)
    \/ \E r \in Requests : ForwardResponse(r, 200, "image")
    \/ \E r \in Requests : UsageLoad(r)
    \/ \E r \in Requests, reply \in CreditReplies : UsageFinish(r, reply)

SpecCredit == InitCredit /\ [][NextCredit]_vars

----------------------------------------------------------------------------
(* SpecReset: the daily reset loop against the wall clock, from midnight   *)
(* of day 0 into day 1, over any small store, with the reset time at the   *)
(* first or the second minute of the day and the session refresh not       *)
(* configured (REGISTER_API_KEY is empty by default).                       *)

ResetTimes == {<<"0", "0", ":", "0", "0">>, <<"0", "0", ":", "0", "1">>}

\* rows for the reset to work on: counters used or not, banned or not
ResetRows(i) ==
    LET fresh == NewAccount(i, EmailOf(i), <<"s">>, <<"u", "s">>, 1, 0)
    IN {fresh,
        [fresh EXCEPT !.video_3_0_count = 1, !.jimeng_4_0_count = 1, !.points = 0],
        [fresh EXCEPT !.nanobanana_count = 1, !.error_count = 1, !.is_banned = TRUE,
                      !.ban_until = 4]}

InitReset ==
    /\ \E n \in 1..MaxAccounts :
          accounts \in {f \in [1..n -> UNION {ResetRows(i) : i \in 1..n}] :
                           \A i \in 1..n : f[i] \in ResetRows(i)}
    /\ \E t \in ResetTimes : settings = [InitSettings EXCEPT !.RESET_COUNTS_TIME = t]
    /\ now = 0
    /\ rr = 0
    /\ req = [r \in Requests |-> InitReq]
    /\ sweep = <<>>
    /\ picked = <<>>
    /\ InitOthers

NextReset ==
    \/ ClockTick(MaxClock)
    \/ ResetCheck
    \/ ResetCommit

SpecReset == InitReset /\ [][NextReset]_vars

----------------------------------------------------------------------------
(* SpecQuota: requests for one model on one account, at most as many in    *)
(* flight as there are request slots, a slot taking its next request when  *)
(* the last one has finished, with the daily reset one minute after start. *)

MaxQuotaClock == 3

\* the next request arrives on a connection whose last request and its
\* background task are over
NextRequest(r) ==
    /\ req[r].pc = "done"
    /\ req' = [req EXCEPT ![r] = InitReq]
    /\ UNCHANGED <<accounts, settings, now, rr, sweep, picked, others>>

InitQuota ==
    /\ accounts = <<NewAccount(1, EmailOf(1), <<"s">>, <<"u", "s">>, 1, 0)>>
    /\ settings = [InitSettings EXCEPT !.RESET_COUNTS_TIME = <<"0", "0", ":", "0", "1">>]
    /\ now = 0
    /\ rr = 0
    /\ req = [r \in Requests |-> InitReq]
    /\ sweep = <<>>
    /\ picked = <<>>
    /\ InitOthers

NextQuota ==
    \/ \E r \in Requests : Receive(r, TRUE, "jimeng-4.0")
    \/ \E r \in Requests : SelectNone(r)
    \/ \E r \in Requests : SelectAccount(r)
    \/ \E r \in Requests : ForwardResponse(r, 200, "image")
    \/ \E r \in Requests : UsageLoad(r)
    \/ \E r \in Requests : UsageCommit(r, NoCredit)
    \/ \E r \in Requests : NextRequest(r)
    \/ ClockTick(MaxQuotaClock)
    \/ ResetCheck
    \/ ResetCommit

SpecQuota == InitQuota /\ [][NextQuota]_vars

----------------------------------------------------------------------------
(* SpecDuration: the forwarder's ban under a ban duration that the admin   *)
(* configures and changes: one request answered with a ban status.         *)

\* the durations the admin configures, in hours
BanDurations == {1, 2}

InitDuration ==
    /\ accounts = <<>>
    /\ settings = [k \in DOMAIN InitSettings \cup {"ACCOUNT_BAN_DURATION_HOURS"} |->
                     IF k = "ACCOUNT_BAN_DURATION_HOURS" THEN ACCOUNT_BAN_DURATION_HOURS
                     ELSE InitSettings[k]]
    /\ now = 0
    /\ rr = 0
    /\ req = [r \in Requests |-> InitReq]
    /\ sweep = <<>>
    /\ picked = <<>>
    /\ InitOthers

NextDuration ==
    \/ now = 0 /\ create_account(EmailOf(NextId), <<"s">>, <<"u", "s">>, 1)
    \/ \E d \in BanDurations : update_settings([ACCOUNT_BAN_DURATION_HOURS |-> d])
    \/ Tick(MaxBanTime)
    \/ \E m \in ModelNames : Receive(1, TRUE, m)
    \/ SelectNone(1)
    \/ SelectAccount(1)
    \/ \E st \in BanStatuses : ForwardResponse(1, st, "error")
    \/ BanLoad(1)
    \/ BanCommit(1)

SpecDuration == InitDuration /\ [][NextDuration]_vars

\* ban_account_temp takes the row and computes the ban in this step
BanLoadStep(r) == req[r].pc = "responded" /\ req'[r].pc = "ban_commit"

\* C21: the ban the forwarder applies on a 429/500/524 response sets
\* ban_until = now + D, D being the ban duration configured when the ban
\* is applied, so a change of the setting changes the later bans
C21_BanUsesConfiguredDuration ==
    [][\A r \in Requests :
          BanLoadStep(r) =>
              req'[r].dirty[1].ban_until = now + settings.ACCOUNT_BAN_DURATION_HOURS]_vars

----------------------------------------------------------------------------
(* SpecLoops: the three background tasks from startup to shutdown, with    *)
(* exceptions raised at any await and in the code between two awaits.      *)
(* The event loop resumes every task that can run, and lifespan when the   *)
(* task it awaits has ended.                                               *)

Sites == {"await", "after"}
Raised == {"none", "Exception", "CancelledError"}
LoopPcs ==
    {"start", "ended", "execute", "commit", "sleep", "refresh_query", "refresh_post",
     "refresh_get", "refresh_commit", "refresh_delay", "post", "poll", "poll_sleep",
     "db_execute", "db_commit", "interval_sleep", "disabled_sleep", "error_sleep"}

Resume(l) ==
    \E site \in Sites, exc \in Raised, next \in LoopPcs, n \in 1..MaxPool :
        LoopStep(l, site, exc, next, n)

NextLoops ==
    \/ \E l \in Range(LoopNames) : Resume(l)
    \/ Shutdown
    \/ ShutdownNext

SpecLoops ==
    /\ Init
    /\ [][NextLoops]_vars
    /\ \A l \in Range(LoopNames) : WF_vars(Resume(l))
    /\ WF_vars(ShutdownNext)

\* the task l ran in this step
Resumed(l) == loops'[l] # loops[l] /\ loops'[l].must_cancel = loops[l].must_cancel

\* C22: an exception raised inside an iteration of a reconciliation loop
\* is caught and the loop goes on: a loop ends only when it is cancelled,
\* whatever happens in the other loops; the step in which an except clause
\* ran leaves the loop asleep (or at the next account of the refresh), and
\* the step from the sleep that ends an iteration starts the next one
C22_LoopsSurviveExceptions ==
    /\ [](\A l \in Range(LoopNames) : loops[l].pc = "ended" => loops[l].cancelled)
    /\ [][\A l \in Range(LoopNames) :
            /\ Resumed(l) /\ ~loops[l].must_cancel => loops'[l].pc # "ended"
            /\ Resumed(l) /\ loops'[l].caught =>
                    loops'[l].pc \in Sleeps \cup {"refresh_post"}
            /\ Resumed(l) /\ ~loops[l].must_cancel /\ loops[l].pc \in LoopEnd =>
                    loops'[l].pc \notin {"start", "ended"}]_vars

\* each loop is asleep after its except clause ran, and none was cancelled
C22_Witness ==
    /\ lifespan = "serving"
    /\ loops["unban_accounts_task"].caught /\ loops["unban_accounts_task"].pc = "sleep"
    /\ loops["reset_usage_counts_task"].caught /\ loops["reset_usage_counts_task"].pc = "sleep"
    /\ loops["auto_register_task"].caught /\ loops["auto_register_task"].pc = "error_sleep"

\* C23: a loop that shutdown cancels gets the cancellation at the await it
\* is suspended at and ends there: once the cancellation is thrown the task
\* has ended (no except clause takes it, no further await is reached),
\* every cancelled loop ends, and lifespan returns
C23_CancellationEndsLoops ==
    /\ [](\A l \in Range(LoopNames) : loops[l].cancelled => loops[l].pc = "ended")
    /\ [][\A l \in Range(LoopNames) :
            loops[l].must_cancel /\ loops'[l] # loops[l] => loops'[l].pc = "ended"]_vars
    /\ (lifespan # "serving") ~> (lifespan = "stopped")

\* shutdown is over: the three loops were cancelled and have ended
C23_Witness ==
    /\ lifespan = "stopped"
    /\ \A l \in Range(LoopNames) : loops[l].cancelled /\ loops[l].pc = "ended"

----------------------------------------------------------------------------
(* SpecPoll: the registration workflow of the endpoint and of the loop,    *)
(* against a registration service that may answer anything to each poll.   *)

Configured == [InitSettings EXCEPT !.REGISTER_API_KEY = <<"k">>]

InitConfigured ==
    /\ accounts = <<>>
    /\ settings = Configured
    /\ now = 0
    /\ rr = 0
    /\ req = [r \in Requests |-> InitReq]
    /\ sweep = <<>>
    /\ picked = <<>>
    /\ InitOthers

PollReplies ==
    {[kind |-> "error", email |-> Null, session_id |-> Null],
     [kind |-> "pending", email |-> Null, session_id |-> Null],
     [kind |-> "failed", email |-> Null, session_id |-> Null],
     [kind |-> "completed", email |-> Null, session_id |-> <<"h", "k", "-", "a">>],
     [kind |-> "completed", email |-> EmailOf(1), session_id |-> <<"h", "k", "-", "a">>]}

NextPoll ==
    \/ \E p \in RegProcs, t \in {Null, <<"t">>} : RegStart(p, t)
    \/ \E p \in RegProcs, reply \in PollReplies : RegPoll(p, reply)
    \/ \E p \in RegProcs : RegCheck(p)
    \/ \E p \in RegProcs : RegInsert(p)

SpecPoll == InitConfigured /\ [][NextPoll]_vars

\* the outcome of a workflow that gave up waiting
TimedOut(p) == reg[p].outcome \in {"408", "timeout"}

\* C17: after a task is created at most 60 status polls are made; a poll
\* that returns completed or failed ends the polling at once, a failed one
\* with a failure; when all 60 polls return a non-terminal status the
\* attempt ends with a timeout (408 from the endpoint), and the step that
\* times out creates no account
C17_PollingTerminates ==
    /\ [](\A p \in RegProcs :
            /\ reg[p].polls <= max_attempts
            /\ reg[p].pc = "poll" => reg[p].polls < max_attempts
            /\ reg[p].pc = "poll" /\ reg[p].polls > 0 => reg[p].status = "pending"
            /\ reg[p].status = "failed" =>
                    reg[p].pc = "done" /\ reg[p].outcome \in {"500", "failed"}
            /\ TimedOut(p) <=>
                    reg[p].polls = max_attempts /\ reg[p].status = "pending"
            /\ reg["register_account"].outcome = "408" =>
                    reg["register_account"].polls = max_attempts)
    /\ [][\A p \in RegProcs :
            /\ reg'[p].polls \in {0, reg[p].polls, reg[p].polls + 1}
            /\ reg[p].pc = "poll" /\ reg'[p].status \in {"completed", "failed"} =>
                    reg'[p].pc # "poll"
            /\ ~TimedOut(p) /\ TimedOut(p)' => accounts' = accounts]_vars

\* the endpoint has answered 408 after 60 polls and the loop has given up
\* after 60 polls, with nothing stored
C17_Witness ==
    /\ reg["register_account"].outcome = "408"
    /\ reg["register_account"].polls = max_attempts
    /\ reg["auto_register_task"].outcome = "timeout"
    /\ reg["auto_register_task"].polls = max_attempts
    /\ accounts = <<>>

----------------------------------------------------------------------------
(* SpecEmail: the writers of Account.email racing for the same emails: the *)
(* admin create, the bulk create, the register endpoint, the registration  *)
(* loop, and the admin update of an email                                  *)

Emails == {EmailOf(1), EmailOf(2)}

EmailReplies ==
    {[kind |-> "completed", email |-> e, session_id |-> <<"a">>] : e \in Emails}

\* the credentials of a bulk request: one or two lines
CredLine(e) == e \o <<":", "p">>
BulkInputs ==
    {<<CredLine(e)>> : e \in Emails}
    \cup {<<CredLine(e), CredLine(f)>> : e \in Emails, f \in Emails}

NextEmail ==
    \/ \E e \in Emails : create_account_check(1, e, <<"s">>, <<"u", "s">>, 1)
    \/ \E b \in BulkInputs :
          bulk_create_accounts(2, b, [k \in DOMAIN b |-> <<"s">>], <<"u", "s">>, 1)
    \/ \E a \in Admins : CommitInsert(a)
    \/ \E i \in Ids, e \in Emails : update_account(1, i, [email |-> e])
    \/ CommitRow(1)
    \/ \E p \in RegProcs : RegStart(p, <<"t">>)
    \/ \E p \in RegProcs, reply \in EmailReplies : RegPoll(p, reply)
    \/ \E p \in RegProcs : RegCheck(p)
    \/ \E p \in RegProcs : RegInsert(p)

SpecEmail == InitConfigured /\ [][NextEmail]_vars

\* C18: in every reachable state no two accounts share an email, however
\* the admin create, the bulk create, the register endpoint and the
\* registration loop interleave their checks and their inserts
C18_EmailUnique ==
    \A i, j \in Ids : i # j => accounts[i].email # accounts[j].email

\* the registration loop and the admin create both found the email free,
\* the admin's insert came first and the store refused the loop's
C18_Witness ==
    /\ reg["auto_register_task"].outcome = "error"
    /\ reg["register_account"].pc = "insert"
    /\ email_exists(accounts, reg["register_account"].email)
    /\ \E a \in Admins : /\ admin[a].op = "bulk"
                          /\ \E k \in DOMAIN admin[a].rows :
                                email_exists(accounts, admin[a].rows[k].email)

----------------------------------------------------------------------------
(* SpecAdmin: the admin endpoints that take account fields from the        *)
(* request body: create, bulk create and update, over two hours            *)

\* points: float in the request models, with no validator
AdminPoints == {-1, 0, 1}

AdminSessions == {Null, <<>>, <<"s">>, <<"t">>}

AdminUpdates ==
    {[points |-> p] : p \in AdminPoints}
    \cup {[session_id |-> s] : s \in AdminSessions}

NextAdmin ==
    \/ \E s \in AdminSessions, p \in AdminPoints :
          create_account_check(1, EmailOf(NextId), s, <<"u", "s">>, p)
    \/ \E p \in AdminPoints :
          bulk_create_accounts(1, <<EmailOf(NextId) \o <<":", "p">>>>, <<<<"s">>>>,
                               <<"u", "s">>, p)
    \/ CommitInsert(1)
    \/ \E i \in Ids, u \in AdminUpdates : update_account(1, i, u)
    \/ CommitRow(1)
    \/ Tick(MaxTime)

SpecAdmin == Init /\ [][NextAdmin]_vars

\* ---- Spec: bulk creation from the two texts of the request ----

MaxLines == 2

\* lines of the credentials text: two emails, the first one also with
\* blanks around it, a line of blanks and a line without ':'
CredentialLines ==
    {CredLine(EmailOf(1)), CredLine(EmailOf(2)), <<" ">> \o EmailOf(1) \o <<" ", ":", "p">>,
     <<" ">>, EmailOf(1)}

\* lines of the session_ids text
SessionLines == {<<"s">>, <<"t">>, <<" ">>}

Texts(lines) == UNION {[1..n -> lines] : n \in 1..MaxLines}

NextBulk ==
    \/ \E e \in Emails : create_account_check(1, e, <<"x">>, <<"u", "s">>, 1)
    \/ \E c \in Texts(CredentialLines), t \in Texts(SessionLines) :
          \/ bulk_create_accounts(1, c, t, <<"u", "s">>, 1)
          \/ bulk_create_rejected(1, c, t)
    \/ CommitInsert(1)

SpecBulk == Init /\ [][NextBulk]_vars

\* the first credential line that names the email
FirstLine(cred_lines, email) ==
    CHOOSE k \in DOMAIN cred_lines :
        /\ line_email(cred_lines[k]) = email
        /\ \A j \in 1..(k - 1) : line_email(cred_lines[j]) # email

\* the bulk request of admin 1 returns
BulkReturn == admin[1].op = "bulk" /\ admin'[1] = NoAdmin

\* C24: when a bulk create returns, the store has exactly one new account
\* for each distinct email of the credential lines that it did not have,
\* with the session id of the line where the email first occurs, nothing
\* else is new, the accounts it had are unchanged, created_count is the
\* number of new accounts and created_count + total_skipped is the number
\* of credential lines
C24_BulkCreateExact ==
    [][BulkReturn =>
         LET cred_lines == admin[1].cred_lines
             session_lines == admin[1].session_lines
             Fresh == {e \in {line_email(cred_lines[k]) : k \in DOMAIN cred_lines} :
                          ~email_exists(accounts, e)}
             New == DOMAIN accounts' \ DOMAIN accounts
         IN /\ \A i \in DOMAIN accounts :
                  i \in DOMAIN accounts' /\ accounts'[i] = accounts[i]
            /\ \A e \in Fresh : Cardinality({i \in New : accounts'[i].email = e}) = 1
            /\ \A i \in New :
                  /\ accounts'[i].email \in Fresh
                  /\ accounts'[i].session_id =
                        session_lines[FirstLine(cred_lines, accounts'[i].email)]
            /\ admin[1].report.created_count = Cardinality(New)
            /\ admin[1].report.created_count + admin[1].report.total_skipped
                  = Len(cred_lines)]_vars

\* a bulk request about to return whose two credential lines name the same
\* new email with different session ids: one account is created, one line
\* is skipped
C24_Witness ==
    /\ admin[1].op = "bulk"
    /\ Len(admin[1].cred_lines) = 2
    /\ admin[1].session_lines[1] # admin[1].session_lines[2]
    /\ admin[1].report.created_count = 1
    /\ admin[1].report.duplicate_in_input # <<>>

\* C19: in every reachable state every per-model usage counter and the
\* points balance of every account are >= 0
C19_CountersAndPointsNonNegative ==
    \A i \in Ids :
        /\ accounts[i].points >= 0
        /\ accounts[i].jimeng_4_0_count >= 0
        /\ accounts[i].jimeng_4_1_count >= 0
        /\ accounts[i].nanobanana_count >= 0
        /\ accounts[i].nanobananapro_count >= 0
        /\ accounts[i].video_3_0_count >= 0

\* this step wrote the session_id of row i: it inserted the row with one,
\* or it changed the one the row had
SessionWritten(i) ==
    IF i \in Ids THEN accounts'[i].session_id # accounts[i].session_id
    ELSE accounts'[i].session_id # Null

\* the timestamps the writers in flight have put on their rows, and the
\* time of the step itself
Stamps ==
    {now}
    \cup {admin[a].dirty[1].session_id_updated_at :
            a \in {b \in Admins : admin[b].dirty # NoAccount}}
    \cup UNION {{admin[a].rows[k].session_id_updated_at : k \in DOMAIN admin[a].rows} :
                  a \in Admins}
    \cup {reset.dirty[1].session_id_updated_at : x \in {y \in {1} : reset.dirty # NoAccount}}

\* C20: every step that writes the session_id of an account (an insert with
\* a session_id, or a change of the session_id of a row) writes its
\* session_id_updated_at in the same commit: the row then carries the
\* timestamp its writer took, never none
C20_SessionWriteStamped ==
    [][\A i \in DOMAIN accounts' :
          SessionWritten(i) =>
              /\ accounts'[i].session_id_updated_at # NoTime
              /\ accounts'[i].session_id_updated_at \in Stamps]_vars

----------------------------------------------------------------------------
(* SpecRegion: the four paths that store a session id the registration     *)
(* service returned: the register endpoint, the registration loop, the     *)
(* session update endpoint and the stale-session refresh of the reset loop *)

\* the region prefixes of the specification
Regions ==
    {<<"u", "s">>, <<"h", "k">>, <<"j", "p">>, <<"s", "g">>, <<"c", "n">>,
     <<"e", "u">>, <<"a", "s", "i", "a">>}

\* the session ids the service returns: "<region>-a" for each region
ReturnedSessions == {r \o <<"-", "a">> : r \in Regions}

RegionReplies ==
    {[kind |-> "failed", email |-> Null, session_id |-> Null]}
    \cup {[kind |-> "completed", email |-> EmailOf(NextId), session_id |-> s] :
             s \in ReturnedSessions}

\* no registration, session update or refresh is under way
Quiet ==
    /\ \A p \in RegProcs : reg[p].pc \in {"idle", "done"}
    /\ \A a \in Admins : admin[a] = NoAdmin
    /\ reset.pc \in {"check", "sleep"}

\* the four paths run one after the other
NextRegion ==
    \/ create_account(EmailOf(NextId), Null, <<"u", "s">>, 1)
    \/ Quiet /\ \E p \in RegProcs : RegStart(p, <<"t">>)
    \/ \E p \in RegProcs, reply \in RegionReplies : RegPoll(p, reply)
    \/ \E p \in RegProcs : RegCheck(p)
    \/ \E p \in RegProcs : RegInsert(p)
    \/ Quiet /\ \E i \in Ids : update_account_session(1, i)
    \/ \E ok \in BOOLEAN, s \in ReturnedSessions : SessionReply(1, ok, s)
    \/ CommitRow(1)
    \/ Quiet /\ ResetCheck
    \/ ResetCommit
    \/ RefreshQuery
    \/ \E ok \in BOOLEAN, s \in ReturnedSessions : RefreshCall(ok, s)
    \/ RefreshGet
    \/ RefreshCommit

SpecRegion == InitConfigured /\ [][NextRegion]_vars

\* the session id starts with the prefix of region r
HasPrefix(session_id, r) == startswith(session_id, r \o <<"-">>)

\* the row stores the region prefix of the returned session id as its region
\* and the rest as its session id
StoredAsReturned(row, returned) ==
    \A r \in Regions :
        HasPrefix(returned, r) =>
            /\ row.region = r
            /\ row.session_id = SubSeq(returned, Len(r) + 2, Len(returned))

\* a registration stored its account in this step
Registered(p) ==
    /\ reg[p].pc = "insert"
    /\ reg'[p].pc = "done"
    /\ DOMAIN accounts' # DOMAIN accounts

\* a session update or a stale-session refresh committed to a row in this step
SessionCommitted(a) ==
    /\ admin[a].op = "session"
    /\ admin'[a] = NoAdmin
    /\ admin[a].loaded[1].id \in Ids

RefreshCommitted ==
    /\ reset.pc = "refresh_commit"
    /\ reset'.pc # "refresh_commit"
    /\ reset.db_account[1].id \in Ids

\* C16: every completed registration or session refresh whose returned
\* session id carries a region prefix of the specification stores that
\* prefix as the region and the remainder as the session id, on each of the
\* four paths (register endpoint, registration loop, session update, stale
\* refresh)
C16_RegionPrefixStored ==
    [][/\ \A p \in RegProcs :
             Registered(p) =>
                 StoredAsReturned(accounts'[MaxId(DOMAIN accounts')], reg[p].session_id)
       /\ \A a \in Admins :
             SessionCommitted(a) =>
                 StoredAsReturned(accounts'[admin[a].loaded[1].id], admin[a].new_session_id)
       /\ RefreshCommitted =>
             StoredAsReturned(accounts'[reset.db_account[1].id], reset.new_session_id)]_vars

----------------------------------------------------------------------------
(* SpecRR: consecutive, non-overlapping calls of get_valid_account for one *)
(* model over a store nothing else writes, from any value the index may    *)
(* have been left at.                                                      *)

\* get_valid_account as one call: the query, then the round-robin pick
select_call(model_name) ==
    /\ Len(picked) < MaxCalls
    /\ LET found == query_valid_accounts(model_name, now)
       IN /\ found # <<>>
          /\ rr' = next_index(rr, Len(found))
          /\ picked' = Append(picked, found[rr' + 1].id)
    /\ UNCHANGED <<accounts, settings, now, req, sweep, others>>

RRModel == "jimeng-4.0"

InitRR ==
    /\ \E n \in 1..MaxPool : \E pts \in [1..n -> PointValues] :
          accounts = [i \in 1..n |->
                         NewAccount(i, EmailOf(i), <<"s">>, <<"u", "s">>, pts[i], 0)]
    /\ settings = InitSettings
    /\ now = 0
    /\ rr \in 0..MaxRR
    /\ req = [r \in Requests |-> InitReq]
    /\ sweep = <<>>
    /\ picked = <<>>
    /\ InitOthers

NextRR == select_call(RRModel)

SpecRR == InitRR /\ [][NextRR]_vars

----------------------------------------------------------------------------
(* Steps of a request, as the properties below name them *)

\* the eligibility query of request r ran in this step
QueryStep(r) == req[r].pc = "idle" /\ req'[r].pc = "select"

\* get_valid_account returned an account to request r in this step
SelectStep(r) == req[r].pc = "select" /\ req'[r].pc = "forward"

\* the background task of request r committed in this step
BanCommitStep(r) == req[r].pc = "ban_commit" /\ req'[r].pc = "done"
UsageCommitStep(r) == req[r].pc = "usage_commit" /\ req'[r].pc = "done"

\* nothing else wrote the selected row between the selection and this commit
Undisturbed(r) ==
    /\ req[r].loaded = req[r].account
    /\ req[r].account[1].id \in Ids
    /\ accounts[req[r].account[1].id] = req[r].account[1]

\* the spec's eligibility filters (section 4.1)
CurrentlyBanned(row, t) == row.is_banned /\ row.ban_until # NoTime /\ row.ban_until > t

WithinQuota(row, m) ==
    /\ (m = "jimeng-4.0" => row.jimeng_4_0_count < settings.LIMIT_JIMENG_4_0)
    /\ (m = "jimeng-4.1" => row.jimeng_4_1_count < settings.LIMIT_JIMENG_4_1)
    /\ (m = "nanobanana" => row.nanobanana_count < settings.LIMIT_NANOBANANA)
    /\ (m = "nanobananapro" => row.nanobananapro_count < settings.LIMIT_NANOBANANAPRO)
    /\ (m = "video-3.0" => row.video_3_0_count < settings.LIMIT_VIDEO_3_0)

HasPoints(row, m) == m \notin PointsExempt => row.points > 0

Eligible(row, m, t) ==
    /\ ~CurrentlyBanned(row, t)
    /\ Truthy(row.session_id)
    /\ WithinQuota(row, m)
    /\ HasPoints(row, m)

----------------------------------------------------------------------------
(* SpecPick: two requests whose eligibility queries have both returned      *)
(* before either takes its round-robin pick, over a pool in which every     *)
(* account is eligible, with the selections of further requests falling     *)
(* between the two picks.                                                   *)

InitPick ==
    /\ \E n \in 2..MaxPool :
          accounts = [i \in 1..n |-> NewAccount(i, EmailOf(i), <<"s">>, <<"u", "s">>, 1, 0)]
    /\ settings = InitSettings
    /\ now = 0
    /\ rr \in 0..MaxRR
    /\ req = [r \in Requests |-> InitReq]
    /\ sweep = <<>>
    /\ picked = <<>>
    /\ InitOthers

NextPick ==
    \/ \E r \in Requests : Receive(r, TRUE, RRModel)
    \/ \E r \in Requests : (\A q \in Requests : req[q].pc # "idle") /\ SelectAccount(r)
    \/ /\ \E q, r \in Requests : req[q].pc = "forward" /\ req[r].pc = "select"
       /\ select_call(RRModel)

SpecPick == InitPick /\ [][NextPick]_vars

\* both requests hold the account their selection returned
BothSelected == \A r \in Requests : req[r].pc = "forward"

\* C29 as stated: two selection calls that overlap and see the same eligible
\* set of two or more accounts return different accounts, and the index
\* a call uses is a position of its list
C29_OverlappingCallsDiffer ==
    /\ [](BothSelected => \A q, r \in Requests : q # r => req[q].account # req[r].account)
    /\ [][\A r \in Requests : SelectStep(r) =>
             /\ rr' \in 0..(Len(req[r].accounts) - 1)
             /\ req'[r].account = <<req[r].accounts[rr' + 1]>>]_vars

\* C29 amended: the two calls return different accounts when no other
\* selection falls between their picks; the read, the advance and the use
\* of the index are one step, and the index a call uses is a position of
\* its list
C29_ConsecutiveCallsDiffer ==
    /\ [](BothSelected /\ picked = <<>> =>
             \A q, r \in Requests : q # r => req[q].account # req[r].account)
    /\ [][\A r \in Requests : SelectStep(r) =>
             /\ rr' \in 0..(Len(req[r].accounts) - 1)
             /\ rr' # rr
             /\ req'[r].account = <<req[r].accounts[rr' + 1]>>]_vars

\* both calls have returned from a pool of two, nothing was selected
\* between them
C29_Witness ==
    /\ BothSelected
    /\ picked = <<>>
    /\ Cardinality(Ids) = 2

----------------------------------------------------------------------------
(* Claims *)

\* C1: the account a selection returns has, for a known model, that model's
\* counter strictly below the configured limit at query time, and points > 0
\* unless the model is nanobanana or nanobananapro; for an unknown model name
\* only points > 0 is required.
C1_SelectedWithinQuotaAndPoints ==
    [][\A r \in Requests : SelectStep(r) =>
          /\ WithinQuota(req'[r].account[1], req[r].model)
          /\ HasPoints(req'[r].account[1], req[r].model)]_vars

\* a request for jimeng-4.0 got an account while an account at its limit exists
C1_Witness ==
    \E r \in Requests :
       /\ req[r].pc = "forward"
       /\ req[r].model = "jimeng-4.0"
       /\ \E i \in Ids : accounts[i].jimeng_4_0_count >= settings.LIMIT_JIMENG_4_0

\* C2: a selection never returns an account that is banned at the time of
\* the query (is_banned true and ban_until strictly later than the query's now).
C2_SelectedNotBanned ==
    [][\A r \in Requests : SelectStep(r) =>
          ~CurrentlyBanned(req'[r].account[1], req[r].now)]_vars

\* an account was selected while another account is banned
C2_Witness ==
    \E r \in Requests :
       /\ req[r].pc = "forward"
       /\ \E i \in Ids : i # req[r].account[1].id /\ CurrentlyBanned(accounts[i], now)

\* C3: an account flagged is_banned whose ban_until <= now (equality included)
\* and that passes the credential, quota and points filters is in the set a
\* selection query finds, before the sweep clears the flag.
C3_ExpiredBanEligible ==
    [][\A r \in Requests : QueryStep(r) =>
          \A i \in Ids :
             ( /\ accounts[i].is_banned
               /\ accounts[i].ban_until # NoTime
               /\ accounts[i].ban_until <= now
               /\ Truthy(accounts[i].session_id)
               /\ WithinQuota(accounts[i], req'[r].model)
               /\ HasPoints(accounts[i], req'[r].model) )
             => accounts[i] \in Range(req'[r].accounts)]_vars

\* C4: a selection never returns an account whose session_id is null or empty.
C4_SelectedHasSession ==
    [][\A r \in Requests : SelectStep(r) => Truthy(req'[r].account[1].session_id)]_vars

\* C5: a selection finds an account exactly when some account passes the four
\* eligibility filters of the spec for the model, and finds none otherwise.
C5_FoundIffEligible ==
    [][\A r \in Requests : QueryStep(r) =>
          ( req'[r].accounts # <<>>
            <=> \E i \in Ids : Eligible(accounts[i], req'[r].model, now) )]_vars

\* C6: with N eligible accounts and an unchanged store, every N consecutive
\* selections return each eligible account exactly once, whatever value the
\* round-robin index started from.
C6_RoundRobin ==
    LET found == query_valid_accounts(RRModel, now)
        N == Len(found)
    IN \A k \in 1..(Len(picked) - N + 1) :
          {picked[j] : j \in k..(k + N - 1)} = {found[j].id : j \in 1..N}

\* more than one full round over at least two eligible accounts
C6_Witness ==
    LET N == Len(query_valid_accounts(RRModel, now))
    IN N >= 2 /\ Len(picked) > N

\* C7: for a forwarded request the upstream status alone decides the side
\* effect: 429, 500, 524 schedule a ban only; a status below 400 schedules a
\* usage increment only; any other status schedules nothing; and the caller
\* gets the upstream status and body unchanged.
C7_StatusDecidesSideEffect ==
    \A r \in Requests :
       req[r].pc \in {"responded", "ban_commit", "usage_commit"} =>
          /\ req[r].respStatus = req[r].status
          /\ req[r].respBody = req[r].body
          /\ (req[r].status \in BanStatuses => req[r].task = "ban")
          /\ (req[r].status \notin BanStatuses /\ req[r].status < 400
                 => req[r].task = "usage")
          /\ (req[r].status \notin BanStatuses /\ req[r].status >= 400
                 => req[r].task = "none")

\* one request answered 429 and another answered 400
C7_Witness ==
    \E r, q \in Requests :
       /\ req[r].pc = "responded" /\ req[r].status = 429 /\ req[r].task = "ban"
       /\ req[q].pc = "responded" /\ req[q].status = 400 /\ req[q].task = "none"

\* C8: when the ban task of a request answered 429, 500 or 524 commits and
\* nothing else wrote the account since its selection, the account is banned
\* until a future time, its error_count is one higher and its five usage
\* counters are as before.
C8_BanEffect ==
    [][\A r \in Requests : BanCommitStep(r) /\ Undisturbed(r) =>
          LET before == req[r].account[1]
              after == accounts'[before.id]
          IN /\ req[r].status \in BanStatuses
             /\ after.is_banned = TRUE
             /\ after.ban_until > now
             /\ after.error_count = before.error_count + 1
             /\ \A f \in CountFields : after[f] = before[f]]_vars

\* a ban task has finished and left a banned account with one error
C8_Witness ==
    \E r \in Requests :
       /\ req[r].pc = "done" /\ req[r].task = "ban"
       /\ \E i \in Ids : accounts[i].is_banned /\ accounts[i].error_count = 1

\* the counter the claim names for each known model
CounterOf(m) ==
    CASE m = "jimeng-4.0" -> "jimeng_4_0_count"
      [] m = "jimeng-4.1" -> "jimeng_4_1_count"
      [] m = "nanobanana" -> "nanobanana_count"
      [] m = "nanobananapro" -> "nanobananapro_count"
      [] m = "video-3.0" -> "video_3_0_count"

\* C9: when the usage task of a request answered with a status below 400
\* commits and nothing else wrote the account since its selection, the counter
\* of a known model is one higher and the other four counters, error_count,
\* is_banned and ban_until are as before; for another model name no counter
\* changes.
C9_UsageEffect ==
    [][\A r \in Requests : UsageCommitStep(r) /\ Undisturbed(r) =>
          LET before == req[r].account[1]
              after == accounts'[before.id]
              m == req[r].model
          IN /\ req[r].status < 400
             /\ \A f \in CountFields :
                   after[f] = IF m \in KnownModels /\ f = CounterOf(m)
                              THEN before[f] + 1 ELSE before[f]
             /\ after.error_count = before.error_count
             /\ after.is_banned = before.is_banned
             /\ after.ban_until = before.ban_until]_vars

\* a usage task for video-3.0 has finished and the counter is 1
C9_Witness ==
    \E r \in Requests :
       /\ req[r].pc = "done" /\ req[r].task = "usage"
       /\ \E i \in Ids : accounts[i].video_3_0_count = 1 /\ accounts[i].jimeng_4_0_count = 0

\* C11: in every reachable state of the store, every account whose
\* ban_until is null has is_banned = false.
C11_NullBanUntilNotBanned ==
    \A i \in Ids : accounts[i].ban_until = NoTime => accounts[i].is_banned = FALSE

\* C12: in every reachable state of the store, no account has
\* is_banned = false together with a non-null ban_until.
C12_BanUntilOnlyWhileBanned ==
    \A i \in Ids : accounts[i].is_banned = FALSE => accounts[i].ban_until = NoTime

\* the unban sweep commits
SweepCommitStep == sweep # <<>> /\ sweep' = <<>>

\* C25: a commit of ban_account_temp leaves its account with the whole ban
\* state the task wrote (is_banned = true, ban_until = its new time) and a
\* commit of the unban sweep leaves every account it loaded with
\* (is_banned = false, ban_until = null), whatever the other of the two did
\* between the read and the commit
C25_BanRaceLastWriteWins ==
    [][/\ \A r \in Requests :
             BanCommitStep(r) /\ req[r].loaded[1].id \in DOMAIN accounts' =>
                /\ accounts'[req[r].loaded[1].id].is_banned = TRUE
                /\ accounts'[req[r].loaded[1].id].ban_until = req[r].dirty[1].ban_until
       /\ SweepCommitStep =>
             \A k \in DOMAIN sweep :
                sweep[k].id \in DOMAIN accounts' =>
                   /\ accounts'[sweep[k].id].is_banned = FALSE
                   /\ accounts'[sweep[k].id].ban_until = NoTime]_vars

\* C26: no step lowers an account's error_count, and the commit of every
\* ban_account_temp task raises the stored error_count of its account by
\* one, so that k completed tasks raise it by k
C26_ErrorCountCountsEveryBan ==
    [][/\ \A i \in DOMAIN accounts \cap DOMAIN accounts' :
             accounts'[i].error_count >= accounts[i].error_count
       /\ \A r \in Requests :
             BanCommitStep(r) /\ req[r].loaded[1].id \in DOMAIN accounts' =>
                accounts'[req[r].loaded[1].id].error_count
                   = accounts[req[r].loaded[1].id].error_count + 1]_vars

\* the limit the selector compares a counter with
LimitOf(field) ==
    CASE field = "jimeng_4_0_count" -> settings.LIMIT_JIMENG_4_0
      [] field = "jimeng_4_1_count" -> settings.LIMIT_JIMENG_4_1
      [] field = "nanobanana_count" -> settings.LIMIT_NANOBANANA
      [] field = "nanobananapro_count" -> settings.LIMIT_NANOBANANAPRO
      [] field = "video_3_0_count" -> settings.LIMIT_VIDEO_3_0

\* C27: with at most K requests in flight (K the number of request slots)
\* no per-model counter of an account exceeds its limit - 1 + K
C27_OvershootBounded ==
    \A i \in Ids : \A field \in CountFields :
        accounts[i][field] <= LimitOf(field) - 1 + Cardinality(Requests)

\* C28: the commit of a usage update leaves each counter at most one above
\* what the store held when it committed, so an update that read the row
\* before the daily reset committed does not bring the pre-reset count back
C28_NoResurrection ==
    [][\A r \in Requests :
          UsageCommitStep(r) /\ req[r].loaded[1].id \in DOMAIN accounts' =>
             \A field \in CountFields :
                accounts'[req[r].loaded[1].id][field]
                   <= accounts[req[r].loaded[1].id][field] + 1]_vars

\* request r gets its response in this step
ResponseStep(r) == req[r].pc = "forward" /\ req'[r].pc = "responded"

\* a step of the background task of request r
TaskStep(r) ==
    /\ req[r].pc \in {"responded", "ban_commit", "usage_commit"}
    /\ req'[r] # req[r]

\* C31: the step that returns the response leaves the store alone; a row
\* of the store changes through a request only in a commit of its
\* background task, after the response was sent; and no step of the task,
\* a commit that fails because the row is gone included, changes what the
\* caller got or anything of another request
C31_ResponseBeforeSideEffect ==
    [][/\ \A r \in Requests : ResponseStep(r) => accounts' = accounts
       /\ (DOMAIN accounts' = DOMAIN accounts /\ accounts' # accounts) =>
             \E r \in Requests :
                /\ BanCommitStep(r) \/ UsageCommitStep(r)
                /\ req[r].sent = TRUE
       /\ \A r \in Requests : TaskStep(r) =>
             /\ req'[r].sent = req[r].sent
             /\ req'[r].error = req[r].error
             /\ \A q \in Requests \ {r} : req'[q] = req[q]]_vars

\* the ban task of one request has read its account, the account was
\* deleted since, so the commit will fail, and the other request has its
\* response
C31_Witness ==
    \E r, q \in Requests :
       /\ req[r].pc = "ban_commit"
       /\ req[r].loaded[1].id \notin Ids
       /\ req[q].pc = "responded"

\* the background task of request r reads its account in this step
TaskReadStep(r) ==
    /\ req[r].pc = "responded"
    /\ req[r].task \in {"ban", "usage"}
    /\ req'[r].pc # "responded"

IsCn(region) == region \in {<<"c", "n">>, <<"C", "N">>}

\* C33: when a usage update ends, the counter of its model is one above the
\* value it read; points is the total of the reply when the lookup was made
\* for a non-empty region other than cn and the reply was good, and is what
\* the store held when the region is cn or empty or the reply was a
\* failure (another status, an error payload, an exception)
C33_CreditLookupBestEffort ==
    [][\A r \in Requests : \A reply \in CreditReplies :
          UsageFinish(r, reply) =>
             LET row == req[r].loaded[1]
                 field == count_field(req[r].model)
             IN /\ accounts'[row.id][field] = row[field] + 1
                /\ (row.region # <<>> /\ ~IsCn(row.region) /\ row.session_id # <<>>
                       /\ reply.kind = "ok")
                      => accounts'[row.id].points = reply.total
                /\ (row.region = <<>> \/ IsCn(row.region) \/ reply.kind # "ok")
                      => accounts'[row.id].points = accounts[row.id].points]_vars

\* two updates have ended with the counter at 2 on an account of another
\* region than cn, and points is a total only a lookup can have brought
C33_Witness ==
    /\ \A r \in Requests : req[r].pc = "done"
    /\ accounts[1].nanobananapro_count = 2
    /\ accounts[1].region = <<"h", "k">>
    /\ accounts[1].points = 2

\* C13: after a pass of the unban sweep has committed, a second pass at the
\* same time over the store as the first left it finds no account to unban,
\* so it changes nothing.
C13_SweepIdempotent ==
    [][sweep # <<>> /\ sweep' = <<>> =>
          \A i \in DOMAIN accounts' :
             ~(accounts'[i].is_banned = TRUE /\ accounts'[i].ban_until # NoTime
                                            /\ accounts'[i].ban_until <= now')]_vars

\* a pass has unbanned one account and left alone one whose ban runs on
C13_Witness ==
    /\ sweep = <<>>
    /\ \E i, j \in Ids :
          /\ accounts[i].is_banned = FALSE /\ accounts[i].ban_until = NoTime
          /\ accounts[j].is_banned = TRUE /\ accounts[j].ban_until > now

\* the first tick of the configured reset minute on day d
ResetMinuteStart(d) ==
    ( (d * HoursPerDay + reset_hour(settings.RESET_COUNTS_TIME)) * MinutesPerHour
      + reset_minute(settings.RESET_COUNTS_TIME) ) * TicksPerMinute

ResetCommitStep == reset.pc = "commit" /\ reset'.pc # "commit"

\* C15: when a daily reset commits and nothing else wrote the store since the
\* reset read it, every account has its five per-model counters at 0 and its
\* error_count, points, is_banned, ban_until, session_id and region as before.
C15_ResetEffect ==
    [][ResetCommitStep /\ (\A i \in Ids : accounts[i] \in Range(reset.loaded))
                       /\ Len(reset.loaded) = Cardinality(Ids) =>
          \A i \in Ids :
             /\ \A f \in CountFields : accounts'[i][f] = 0
             /\ \A f \in {"error_count", "points", "is_banned", "ban_until",
                           "session_id", "region"} : accounts'[i][f] = accounts[i][f]]_vars

\* a reset has run over an account with one error and a used counter
C15_Witness ==
    /\ Len(reset.log) >= 1
    /\ \E i \in Ids : /\ accounts[i].error_count = 1 /\ accounts[i].is_banned
                       /\ accounts[i].nanobanana_count = 0

\* C10: a request that ends in Unauthorized, NoCapacity or UpstreamUnreachable
\* schedules no task and no step of it writes an account; Unauthorized comes
\* before any selection and leaves the round-robin index alone; Unauthorized
\* and NoCapacity send nothing upstream.
C10_ErrorsMutateNothing ==
    [][\A r \in Requests :
          /\ (req'[r] # req[r] /\ req'[r].task = "none" => accounts' = accounts)
          /\ req'[r].error # "none" =>
             /\ req'[r].pc = "done"
             /\ req'[r].task = "none"
             /\ (req'[r].error \in {"Unauthorized", "NoCapacity"} => ~req'[r].sent)
             /\ (req'[r].error = "Unauthorized" /\ req[r].error = "none" =>
                    /\ req[r].pc = "idle"
                    /\ req[r].account = NoAccount
                    /\ rr' = rr)]_vars

\* one request ended in UpstreamUnreachable and one in Unauthorized
C10_Witness ==
    \E r, q \in Requests :
       /\ req[r].error = "UpstreamUnreachable" /\ req[r].sent
       /\ req[q].error = "Unauthorized"

----------------------------------------------------------------------------
(* SpecAuto: the cycles of main.auto_register_task, enabled and configured, *)
(* with every reply of the registration service, while the admin creates   *)
(* accounts, so that the e-mail of a registration can be taken before the  *)
(* select of the loop or between its select and its commit.                *)

\* settings.AUTO_REGISTER_ENABLED and settings.AUTO_REGISTER_INTERVAL (in
\* seconds) as configured
AUTO_REGISTER_ENABLED == TRUE
AUTO_REGISTER_INTERVAL == 300

\* `await asyncio.sleep(60)` of the loop: auto-registration switched off,
\* and the outer `except Exception`
DisabledSleepSeconds == 60
ErrorSleepSeconds == 60

AutoSettings ==
    [k \in DOMAIN Configured \cup {"AUTO_REGISTER_ENABLED", "AUTO_REGISTER_INTERVAL"} |->
        IF k = "AUTO_REGISTER_ENABLED" THEN AUTO_REGISTER_ENABLED
        ELSE IF k = "AUTO_REGISTER_INTERVAL" THEN AUTO_REGISTER_INTERVAL
        ELSE Configured[k]]

\* the top of the while loop up to the first await: the settings are
\* loaded; not enabled and not configured go to their sleeps, else the POST
\* is made: created says it returned a 2xx JSON reply, task_id is what the
\* reply holds
AutoRegisterStart(created, task_id) ==
    LET p == "auto_register_task"
    IN /\ reg[p].pc = "idle"
       /\ loops[p].pc \in LoopEnd
       /\ IF ~settings.AUTO_REGISTER_ENABLED
          THEN /\ reg' = [reg EXCEPT ![p] = Ended(p, NoReg, "", "disabled")]
               /\ UNCHANGED <<accounts, settings, now, rr, req, sweep, picked, clock,
                              admin, reset, loops, lifespan>>
          ELSE IF refresh_configured /\ ~created
          THEN /\ reg' = [reg EXCEPT ![p] = Ended(p, NoReg, "", "create failed")]
               /\ UNCHANGED <<accounts, settings, now, rr, req, sweep, picked, clock,
                              admin, reset, loops, lifespan>>
          ELSE RegStart(p, task_id)

\* the asyncio.sleep that ends a cycle with this outcome: an exception of
\* the store leaves the workflow for the outer `except Exception`
sleep_of(outcome) ==
    CASE outcome = "disabled" -> "disabled_sleep"
      [] outcome = "error" -> "error_sleep"
      [] OTHER -> "interval_sleep"

\* the seconds the task sleeps at pc under the settings s it loaded
sleep_seconds(pc, s) ==
    CASE pc = "disabled_sleep" -> DisabledSleepSeconds
      [] pc = "error_sleep" -> ErrorSleepSeconds
      [] pc = "interval_sleep" -> s.AUTO_REGISTER_INTERVAL

\* the workflow of the cycle is over: the task goes to sleep
AutoRegisterSleep ==
    LET p == "auto_register_task"
    IN /\ reg[p].pc = "done"
       /\ reg' = [reg EXCEPT ![p].pc = "idle"]
       /\ loops' = [loops EXCEPT ![p].pc = sleep_of(reg[p].outcome)]
       /\ UNCHANGED <<accounts, settings, now, rr, req, sweep, picked, clock, admin,
                      reset, lifespan>>

InitAuto ==
    /\ accounts = <<>>
    /\ settings = AutoSettings
    /\ now = 0
    /\ rr = 0
    /\ req = [r \in Requests |-> InitReq]
    /\ sweep = <<>>
    /\ picked = <<>>
    /\ InitOthers

NextAuto ==
    \/ \E created \in BOOLEAN, t \in {Null, <<"t">>} : AutoRegisterStart(created, t)
    \/ \E reply \in PollReplies : RegPoll("auto_register_task", reply)
    \/ RegCheck("auto_register_task")
    \/ RegInsert("auto_register_task")
    \/ AutoRegisterSleep
    \/ NextId <= MaxAccounts /\ create_account(EmailOf(1), <<"s">>, <<"u", "s">>, 1)

SpecAuto == InitAuto /\ [][NextAuto]_vars

\* the loop sleeps at the end of a cycle that ran the workflow
CycleOver ==
    /\ reg["auto_register_task"].pc = "idle"
    /\ reg["auto_register_task"].outcome \notin {"none", "disabled", "not configured"}
    /\ loops["auto_register_task"].pc \in LoopEnd \ {"start"}

\* C34: with auto-registration enabled and configured, the sleep that ends a
\* cycle lasts AUTO_REGISTER_INTERVAL seconds whatever the outcome of the
\* workflow: registered, task creation failed, no task_id, poll failed,
\* task failed, timeout, e-mail exists, or an error of the store while saving
C34_SleepsIntervalAfterEveryOutcome ==
    CycleOver =>
        sleep_seconds(loops["auto_register_task"].pc, settings)
            = settings.AUTO_REGISTER_INTERVAL

----------------------------------------------------------------------------
(* SpecRefresh: one run of _auto_update_expired_sessions after the reset   *)
(* of the day, over a store of accounts with null, old, just-inside-the-   *)
(* threshold and fresh sessions, with every reply of the registration      *)
(* service, while the admin deletes accounts.                              *)

\* the hour of the run: the first hour after the threshold has passed for a
\* session of hour 0
RefreshTime == SESSION_UPDATE_DAYS * HoursPerDay + 1

\* session_id_updated_at of the stored accounts: null, older than the
\* threshold, exactly at the threshold, and of this hour
SessionTimes == {NoTime, 0, RefreshTime - SESSION_UPDATE_DAYS * HoursPerDay, RefreshTime}

\* what the service returns for one account: an exception, a reply without
\* session_id, or a session id with a region prefix
RefreshReplies == {<<FALSE, Null>>, <<TRUE, Null>>, <<TRUE, <<"e", "u", "-", "a">>>>}

InitRefresh ==
    /\ \E n \in 1..MaxPool : \E t \in [1..n -> SessionTimes] :
          accounts = [i \in 1..n |->
                         NewAccount(i, EmailOf(i), <<"s">>, <<"u", "s">>, 1, t[i])]
    /\ settings = [Configured EXCEPT !.RESET_COUNTS_TIME = <<"0", "1", ":", "0", "0">>]
    /\ now = RefreshTime
    /\ rr = 0
    /\ req = [r \in Requests |-> InitReq]
    /\ sweep = <<>>
    /\ picked = <<>>
    /\ clock = now * TicksPerMinute * MinutesPerHour
    /\ admin = [a \in Admins |-> NoAdmin]
    /\ reg = [p \in RegProcs |-> NoReg]
    /\ reset = InitResetTask
    /\ loops = [l \in Range(LoopNames) |-> NewTask]
    /\ lifespan = "serving"

NextRefresh ==
    \/ reset.last_reset_date = NoDate /\ ResetCheck
    \/ ResetCommit
    \/ RefreshQuery
    \/ \E u \in RefreshReplies : RefreshCall(u[1], u[2])
    \/ RefreshGet
    \/ RefreshCommit
    \/ \E i \in Ids : delete_account(i)

SpecRefresh == InitRefresh /\ [][NextRefresh]_vars

\* the awaits of one account's attempt
AttemptPcs == {"refresh_call", "refresh_get", "refresh_commit"}

\* a step of the refresh run
RefreshStep == reset.pc \in AttemptPcs \cup {"refresh_query"} /\ reset' # reset

\* the query lists the accounts with a null or too old session, each once
QueryListsStale ==
    reset.pc = "refresh_query" /\ reset' # reset =>
        /\ \A i \in Ids :
              Cardinality({k \in DOMAIN reset'.expired_accounts :
                              reset'.expired_accounts[k].id = i})
                 = IF session_expired(accounts[i], now, SESSION_UPDATE_DAYS) THEN 1 ELSE 0
        /\ reset'.pc = "refresh_call" => reset'.k = 1
        /\ reset'.pc = "sleep" =>
              \A i \in Ids : ~session_expired(accounts[i], now, SESSION_UPDATE_DAYS)

\* the run goes through the list in order, one POST for each account, and
\* returns after the last one, whatever the attempts came to
EachAttemptedOnce ==
    reset.pc \in AttemptPcs /\ reset' # reset =>
        /\ reset'.pc \in AttemptPcs =>
              /\ reset'.expired_accounts = reset.expired_accounts
              /\ reset'.k = IF reset'.pc = "refresh_call" THEN reset.k + 1 ELSE reset.k
              /\ reset'.pc = "refresh_get" => reset.pc = "refresh_call"
              /\ reset'.pc = "refresh_commit" => reset.pc = "refresh_get"
        /\ reset'.pc \notin AttemptPcs =>
              /\ reset'.pc = "sleep"
              /\ reset.k = Len(reset.expired_accounts)

\* the run writes only the row of the account it is at, and of it only the
\* session id, its time and the region; a failed attempt writes nothing
OnlyAttemptedWritten ==
    RefreshStep /\ accounts' # accounts =>
        /\ reset.pc = "refresh_commit"
        /\ DOMAIN accounts' = DOMAIN accounts
        /\ \A i \in Ids :
              IF i = reset.expired_accounts[reset.k].id
              THEN accounts'[i] = refreshed_row(accounts[i], reset.new_session_id, now)
              ELSE accounts'[i] = accounts[i]

FailedAttemptWritesNothing ==
    /\ reset.pc = "refresh_call" /\ reset' # reset /\ reset'.pc # "refresh_get" =>
          accounts' = accounts
    /\ reset.pc = "refresh_get" /\ reset' # reset /\ reset'.pc # "refresh_commit" =>
          accounts' = accounts

\* C35: in one run of the stale-session refresh every account whose
\* session_id_updated_at is null or older than the threshold is attempted
\* exactly once, in the order of the list, no other account is written, and
\* an attempt that fails writes nothing and is followed by the attempts on
\* the accounts after it
C35_EveryStaleAttemptedOnce ==
    [][/\ QueryListsStale
       /\ EachAttemptedOnce
       /\ OnlyAttemptedWritten
       /\ FailedAttemptWritesNothing]_vars

\* a run is over in which the attempt on the first account failed, the one
\* on a later account refreshed it, and an account at the threshold is as
\* it was
C35_Witness ==
    /\ reset.pc = "sleep"
    /\ Len(reset.log) = 1
    /\ \E i, j, f \in Ids :
          /\ i < j
          /\ accounts[i].session_id_updated_at = NoTime
          /\ accounts[i].session_id = <<"s">>
          /\ accounts[j].session_id = <<"a">>
          /\ accounts[j].region = <<"e", "u">>
          /\ accounts[j].session_id_updated_at = now
          /\ accounts[f].session_id_updated_at = RefreshTime - SESSION_UPDATE_DAYS * HoursPerDay
          /\ accounts[f].session_id = <<"s">>

----------------------------------------------------------------------------
(* SpecDaily: the reset loop with the session refresh configured, against  *)
(* the wall clock from midnight of day 0 into day 1, over one account with *)
(* a null or a dated session, with the store failing at the commit of the  *)
(* reset or at the query of the refresh, and every reply of the            *)
(* registration service.                                                   *)

reset_except_goes_on(task) == [task EXCEPT !.pc = "refresh_query", !.loaded = <<>>]

\* `except Exception` of reset_usage_counts_task: the line is printed and
\* the iteration ends in its sleep
reset_except(task) == Asleep(task)

\* session.commit() of the reset raises: nothing is written
ResetCommitRaises ==
    /\ reset.pc = "commit"
    /\ reset' = reset_except(reset)
    /\ UNCHANGED <<accounts, settings, now, rr, req, sweep, picked, clock, admin, reg,
                   loops, lifespan>>

\* session.execute(query) of the refresh raises: no per-account try is
\* around it, the exception reaches the except of the loop
RefreshQueryRaises ==
    /\ reset.pc = "refresh_query"
    /\ reset' = Asleep(reset)
    /\ UNCHANGED <<accounts, settings, now, rr, req, sweep, picked, clock, admin, reg,
                   loops, lifespan>>

InitDaily ==
    /\ \E t \in {NoTime, 0} :
          accounts = <<NewAccount(1, EmailOf(1), <<"s">>, <<"u", "s">>, 1, t)>>
    /\ \E t \in ResetTimes : settings = [Configured EXCEPT !.RESET_COUNTS_TIME = t]
    /\ now = 0
    /\ rr = 0
    /\ req = [r \in Requests |-> InitReq]
    /\ sweep = <<>>
    /\ picked = <<>>
    /\ InitOthers

NextDaily ==
    \/ ClockTick(MaxClock)
    \/ ResetCheck
    \/ ResetCommit
    \/ ResetCommitRaises
    \/ RefreshQuery
    \/ RefreshQueryRaises
    \/ \E u \in RefreshReplies : RefreshCall(u[1], u[2])
    \/ RefreshGet
    \/ RefreshCommit

SpecDaily == InitDaily /\ [][NextDaily]_vars

\* _auto_update_expired_sessions is called in this step
RefreshStarts == reset.pc # "refresh_query" /\ reset'.pc = "refresh_query"

\* the commit of a reset succeeds in this step
ResetCommitted == reset.pc = "commit" /\ reset'.log # reset.log

\* the loop is inside _auto_update_expired_sessions
InRefresh == reset.pc \in AttemptPcs \cup {"refresh_query"}

\* C36: the refresh is started by the step in which the commit of a daily
\* reset succeeds and by no other step; a reset whose commit fails ends in
\* the sleep of the loop with nothing recorded; while the refresh runs the
\* reset of the day of that iteration is recorded; and no day is reset
\* twice, whatever became of the refresh
C36_RefreshOnceAfterEachReset ==
    /\ [][/\ RefreshStarts <=> ResetCommitted
          /\ reset.pc = "commit" /\ reset' # reset /\ ~ResetCommitted =>
                /\ reset'.pc = "sleep"
                /\ reset'.last_reset_date = reset.last_reset_date
                /\ accounts' = accounts
          /\ ResetCommitted =>
                /\ date_of(reset.now) \notin Range(reset.log)
                /\ reset'.log = Append(reset.log, date_of(reset.now))
          /\ InRefresh /\ reset'.pc = "sleep" =>
                /\ reset'.last_reset_date = reset.last_reset_date
                /\ reset'.log = reset.log]_vars
    /\ [](InRefresh =>
             /\ reset.last_reset_date = date_of(reset.now)
             /\ reset.log # <<>>
             /\ reset.log[Len(reset.log)] = date_of(reset.now))

\* the refresh of day 1 is at an account: the reset of day 0 was followed
\* by a refresh that left an account stale, and the commit of the reset of
\* day 1 failed at the first check of the minute and succeeded at the next
C36_Witness ==
    /\ reset.pc = "refresh_call"
    /\ reset.log = <<0, 1>>
    /\ reset.now % TicksPerMinute = 1

====
